---- MODULE Spec2Model ----
(***************************************************************************)
(* n8n-scanner: the workflow analyzer of src/app/page.tsx.                 *)
(*                                                                         *)
(* The page component N8nAnalyzer holds the React state jsonInput, result, *)
(* workflowData and isAnalyzing.  Its handlers parse the raw text with     *)
(* JSON.parse, classify and validate the parsed document                   *)
(* (validateN8nWorkflow), run the detector catalog on every node           *)
(* (checkNodeSecurity) and store the report.                               *)
(*                                                                         *)
(* JavaScript values are modelled as tagged records, raw text as a         *)
(* sequence of JSON lexemes, and a JavaScript exception as a result record *)
(* with threw = TRUE that the enclosing try/catch inspects.                *)
(***************************************************************************)
EXTENDS Integers, Sequences, FiniteSets, TLC

VARIABLES jsonInput, result, workflowData, isAnalyzing, readers, timers,
          reportUrl, isGenerating, awaiting

vars == <<jsonInput, result, workflowData, isAnalyzing, readers, timers,
          reportUrl, isGenerating, awaiting>>

\* the state of the ReportGenerator component of src/components/report-generator.tsx
generator == <<reportUrl, isGenerating, awaiting>>

(***************************************************************************)
(* JavaScript values.  Every value is a record with the same four fields:  *)
(* t the type tag, s the text of a string (or of a boolean), n the value   *)
(* of a number, kids the elements of an array or the [k, v] entries of an  *)
(* object in insertion order.                                              *)
(***************************************************************************)
Undefined == [t |-> "undefined", s |-> "", n |-> 0, kids |-> <<>>]

Null == [t |-> "null", s |-> "", n |-> 0, kids |-> <<>>]

Bool(b) == [t |-> "boolean", s |-> IF b THEN "true" ELSE "false", n |-> 0, kids |-> <<>>]

Num(i) == [t |-> "number", s |-> "", n |-> i, kids |-> <<>>]

Str(x) == [t |-> "string", s |-> x, n |-> 0, kids |-> <<>>]

Arr(elems) == [t |-> "array", s |-> "", n |-> 0, kids |-> elems]

Obj(entries) == [t |-> "object", s |-> "", n |-> 0, kids |-> entries]

KV(key, val) == [k |-> key, v |-> val]

\* v === undefined || v === null
IsNullish(v) == v.t \in {"undefined", "null"}

\* ToBoolean(v): false for undefined, null, false, 0 and "".
Truthy(v) ==
  CASE v.t = "undefined" -> FALSE
    [] v.t = "null" -> FALSE
    [] v.t = "boolean" -> v.s = "true"
    [] v.t = "number" -> v.n # 0
    [] v.t = "string" -> v.s # ""
    [] OTHER -> TRUE

\* a || b
Or(a, b) == IF Truthy(a) THEN a ELSE b

\* typeof v === "object" (true of null, arrays and plain objects)
TypeofObject(v) == v.t \in {"null", "array", "object"}

\* typeof v === "string"
TypeofString(v) == v.t = "string"

\* Array.isArray(v)
IsArray(v) == v.t = "array"

(***************************************************************************)
(* Property access and the Object.* enumerations.  The documents of this   *)
(* model carry no integer-like object keys, so insertion order is the      *)
(* enumeration order of JavaScript.                                        *)
(***************************************************************************)
\* Object.keys(v) for a non-nullish v
ObjectKeys(v) ==
  CASE v.t = "object" -> [i \in 1..Len(v.kids) |-> v.kids[i].k]
    [] v.t = "array" -> [i \in 1..Len(v.kids) |-> ToString(i - 1)]
    [] v.t = "string" -> [i \in 1..Len(v.s) |-> ToString(i - 1)]
    [] OTHER -> <<>>

\* Object.values(v) for a non-nullish v
ObjectValues(v) ==
  CASE v.t = "object" -> [i \in 1..Len(v.kids) |-> v.kids[i].v]
    [] v.t = "array" -> v.kids
    [] v.t = "string" -> [i \in 1..Len(v.s) |-> Str(SubSeq(v.s, i, i))]
    [] OTHER -> <<>>

\* v[key] for a non-nullish v (reading a property of undefined or null throws;
\* the callers test IsNullish first, as the engine does)
Get(v, key) ==
  LET keys == ObjectKeys(v)
      vals == ObjectValues(v)
      hits == {i \in 1..Len(keys) : keys[i] = key}
  IN  IF hits # {} THEN vals[CHOOSE i \in hits : TRUE]
      ELSE IF key = "length" /\ v.t = "array" THEN Num(Len(v.kids))
      ELSE IF key = "length" /\ v.t = "string" THEN Num(Len(v.s))
      ELSE Undefined

\* v?.key
OptGet(v, key) == IF IsNullish(v) THEN Undefined ELSE Get(v, key)

RECURSIVE ToStr(_)
RECURSIVE JoinElems(_)
\* Array.prototype.join(","): null and undefined elements give the empty string
JoinElems(elems) ==
  IF elems = <<>> THEN ""
  ELSE (IF IsNullish(Head(elems)) THEN "" ELSE ToStr(Head(elems)))
       \o (IF Len(elems) > 1 THEN "," \o JoinElems(Tail(elems)) ELSE "")

\* String(v), the conversion a template literal `${v}` applies
ToStr(v) ==
  CASE v.t = "undefined" -> "undefined"
    [] v.t = "null" -> "null"
    [] v.t = "boolean" -> v.s
    [] v.t = "number" -> ToString(v.n)
    [] v.t = "string" -> v.s
    [] v.t = "array" -> JoinElems(v.kids)
    [] OTHER -> "[object Object]"

\* String.prototype.includes(needle)
StrIncludes(x, needle) ==
  \E i \in 1..(Len(x) - Len(needle) + 1) : SubSeq(x, i, i + Len(needle) - 1) = needle

\* x.endsWith(suffix)
EndsWith(x, suffix) ==
  Len(x) >= Len(suffix) /\ SubSeq(x, Len(x) - Len(suffix) + 1, Len(x)) = suffix

\* v.includes is callable: String.prototype.includes or Array.prototype.includes
HasIncludes(v) == v.t \in {"string", "array"}

\* v.includes(needle) where HasIncludes(v): a substring test on a string, a
\* SameValueZero membership test on an array
Includes(v, needle) ==
  IF v.t = "string" THEN StrIncludes(v.s, needle)
  ELSE \E i \in 1..Len(v.kids) : v.kids[i] = Str(needle)

(***************************************************************************)
(* Raw text.  A text is a sequence of lexemes [k, s, n]:                   *)
(*   k = "p"   one of the six structural characters, in s                  *)
(*   k = "str" a double-quoted string literal with content s               *)
(*   k = "num" a number literal with value n                               *)
(*   k = "lit" one of the literals true, false, null, in s                 *)
(*   k = "ws"  JSON whitespace (space, tab, line feed, carriage return)    *)
(*   k = "uws" white space that String.prototype.trim strips and the JSON  *)
(*             grammar does not allow (a no-break space, a form feed)      *)
(*   k = "bad" any other run of characters (a bare word, a quote)          *)
(***************************************************************************)
P(c) == [k |-> "p", s |-> c, n |-> 0]

S(x) == [k |-> "str", s |-> x, n |-> 0]

N(i) == [k |-> "num", s |-> "", n |-> i]

L(x) == [k |-> "lit", s |-> x, n |-> 0]

WS == [k |-> "ws", s |-> " ", n |-> 0]

UWS == [k |-> "uws", s |-> " ", n |-> 0]

BAD == [k |-> "bad", s |-> "oops", n |-> 0]

\* text.trim() === "" : only white space, of either kind
TrimIsEmpty(text) == \A i \in 1..Len(text) : text[i].k \in {"ws", "uws"}

IsWs(tok) == tok.k = "ws"

NotWs(tok) == ~IsWs(tok)

\* the property list of an object literal after `key: val` is read: a repeated
\* key keeps its first position and takes the last value
PutMember(entries, key, val) ==
  IF \E i \in 1..Len(entries) : entries[i].k = key
  THEN [i \in 1..Len(entries) |->
          IF entries[i].k = key THEN KV(key, val) ELSE entries[i]]
  ELSE Append(entries, KV(key, val))

ParseOk(val, next) == [ok |-> TRUE, val |-> val, next |-> next, msg |-> ""]

ParseFail(m) == [ok |-> FALSE, val |-> Undefined, next |-> 0, msg |-> m]

EndOfInput == "Unexpected end of JSON input"

UnexpectedToken == "Unexpected token in JSON"

RECURSIVE ParseValue(_, _)
RECURSIVE ParseElements(_, _, _)
RECURSIVE ParseMembers(_, _, _)

\* the elements of an array after "[" or ",": a value, then "," or "]"
ParseElements(ts, i, acc) ==
  LET r == ParseValue(ts, i)
  IN  IF ~r.ok THEN r
      ELSE IF r.next > Len(ts) THEN ParseFail(EndOfInput)
      ELSE IF ts[r.next] = P("]") THEN ParseOk(Arr(Append(acc, r.val)), r.next + 1)
      ELSE IF ts[r.next] = P(",") THEN ParseElements(ts, r.next + 1, Append(acc, r.val))
      ELSE ParseFail(UnexpectedToken)

\* the members of an object after "{" or ",": a string, ":", a value, then "," or "}"
ParseMembers(ts, i, acc) ==
  IF i > Len(ts) THEN ParseFail(EndOfInput)
  ELSE IF ts[i].k # "str" THEN ParseFail(UnexpectedToken)
  ELSE IF i + 1 > Len(ts) THEN ParseFail(EndOfInput)
  ELSE IF ts[i + 1] # P(":") THEN ParseFail(UnexpectedToken)
  ELSE LET r == ParseValue(ts, i + 2)
       IN  IF ~r.ok THEN r
           ELSE IF r.next > Len(ts) THEN ParseFail(EndOfInput)
           ELSE IF ts[r.next] = P("}")
                THEN ParseOk(Obj(PutMember(acc, ts[i].s, r.val)), r.next + 1)
           ELSE IF ts[r.next] = P(",")
                THEN ParseMembers(ts, r.next + 1, PutMember(acc, ts[i].s, r.val))
           ELSE ParseFail(UnexpectedToken)

\* one JSON value starting at lexeme i
ParseValue(ts, i) ==
  IF i > Len(ts) THEN ParseFail(EndOfInput)
  ELSE LET tok == ts[i]
       IN  CASE tok.k = "str" -> ParseOk(Str(tok.s), i + 1)
             [] tok.k = "num" -> ParseOk(Num(tok.n), i + 1)
             [] tok.k = "lit" ->
                  ParseOk(IF tok.s = "null" THEN Null ELSE Bool(tok.s = "true"), i + 1)
             [] tok = P("[") ->
                  IF i + 1 <= Len(ts) /\ ts[i + 1] = P("]") THEN ParseOk(Arr(<<>>), i + 2)
                  ELSE ParseElements(ts, i + 1, <<>>)
             [] tok = P("{") ->
                  IF i + 1 <= Len(ts) /\ ts[i + 1] = P("}") THEN ParseOk(Obj(<<>>), i + 2)
                  ELSE ParseMembers(ts, i + 1, <<>>)
             [] OTHER -> ParseFail(UnexpectedToken)

\* JSON.parse reading one value and ignoring the lexemes after it
JSONparsePrefix(text) ==
  LET ts == SelectSeq(text, NotWs)
      r == ParseValue(ts, 1)
  IN  IF ~r.ok THEN [threw |-> TRUE, val |-> Undefined, msg |-> r.msg]
      ELSE [threw |-> FALSE, val |-> r.val, msg |-> ""]

\* JSON.parse(text): [threw, val, msg].  One value, white space around the
\* lexemes skipped, nothing after it; anything else throws a SyntaxError.
JSONparse(text) ==
  LET ts == SelectSeq(text, NotWs)
      r == ParseValue(ts, 1)
  IN  IF ~r.ok THEN [threw |-> TRUE, val |-> Undefined, msg |-> r.msg]
      ELSE IF r.next # Len(ts) + 1
           THEN [threw |-> TRUE, val |-> Undefined, msg |-> UnexpectedToken]
      ELSE [threw |-> FALSE, val |-> r.val, msg |-> ""]

(***************************************************************************)
(* The regular expressions of the sensitive-data detector                  *)
(* (sensitivePatterns).  The seven keyword patterns carry the i flag; the  *)
(* patterns are ASCII, so matching them ignoring case is matching the      *)
(* ASCII-lowercased subject.  None carries the g flag, so test() keeps no  *)
(* position between calls.                                                 *)
(***************************************************************************)
UpperLetters == "ABCDEFGHIJKLMNOPQRSTUVWXYZ"

LowerLetters == "abcdefghijklmnopqrstuvwxyz"

Digits == "0123456789"

CharAt(x, i) == SubSeq(x, i, i)

InChars(c, alphabet) == \E i \in 1..Len(alphabet) : CharAt(alphabet, i) = c

LowerChar(c) ==
  IF InChars(c, UpperLetters)
  THEN CharAt(LowerLetters, CHOOSE i \in 1..Len(UpperLetters) : CharAt(UpperLetters, i) = c)
  ELSE c

RECURSIVE LowerCase(_)
LowerCase(x) ==
  IF x = "" THEN "" ELSE LowerChar(CharAt(x, 1)) \o LowerCase(SubSeq(x, 2, Len(x)))

IsDigit(c) == InChars(c, Digits)

\* \w
IsWordChar(c) == IsDigit(c) \/ InChars(c, LowerLetters) \/ InChars(c, UpperLetters) \/ c = "_"

\* the characters [-\s] can match in the texts of this model
IsDashOrSpace(c) == c \in {"-", " ", "\t", "\n", "\r", "\f"}

\* the characters . does not match
IsLineTerminator(c) == c \in {"\n", "\r"}

\* /a.b/ on x: a, one character that is no line terminator, b
MatchDotted(x, a, b) ==
  \E i \in 1..(Len(x) - Len(a) - Len(b)) :
     /\ SubSeq(x, i, i + Len(a) - 1) = a
     /\ ~IsLineTerminator(CharAt(x, i + Len(a)))
     /\ SubSeq(x, i + Len(a) + 1, i + Len(a) + Len(b)) = b

\* /a[_-]?b/ on x
MatchOptSep(x, a, b) ==
  StrIncludes(x, a \o b) \/ StrIncludes(x, a \o "_" \o b) \/ StrIncludes(x, a \o "-" \o b)

\* \d{4} at i: the position after it, 0 when it does not match
FourDigits(x, i) ==
  IF i >= 1 /\ i + 3 <= Len(x) /\ \A j \in i..(i + 3) : IsDigit(CharAt(x, j))
  THEN i + 4 ELSE 0

\* [-\s]? at i: a digit cannot follow unless the separator is taken, so the
\* greedy choice is the only one that can match
OptSep(x, i) == IF i >= 1 /\ i <= Len(x) /\ IsDashOrSpace(CharAt(x, i)) THEN i + 1 ELSE i

\* /\b\d{4}[-\s]?\d{4}[-\s]?\d{4}[-\s]?\d{4}\b/ on x
MatchCardNumber(x) ==
  \E i \in 1..Len(x) :
     LET e1 == FourDigits(x, i)
         e2 == IF e1 = 0 THEN 0 ELSE FourDigits(x, OptSep(x, e1))
         e3 == IF e2 = 0 THEN 0 ELSE FourDigits(x, OptSep(x, e2))
         e4 == IF e3 = 0 THEN 0 ELSE FourDigits(x, OptSep(x, e3))
     IN  /\ e4 # 0
         /\ (i = 1 \/ ~IsWordChar(CharAt(x, i - 1)))
         /\ (e4 > Len(x) \/ ~IsWordChar(CharAt(x, e4)))

\* sensitivePatterns: the type labels, in the order of the list
sensitivePatterns ==
  <<"API Key", "Password", "Secret", "Token", "Private Key", "SSN", "Credit Card",
    "Credit Card Number">>

\* the i-th pattern on x, lx being x in lower case
PatternMatch(i, x, lx) ==
  CASE i = 1 -> MatchOptSep(lx, "api", "key")
    [] i = 2 -> StrIncludes(lx, "password")
    [] i = 3 -> StrIncludes(lx, "secret")
    [] i = 4 -> StrIncludes(lx, "token")
    [] i = 5 -> MatchOptSep(lx, "private", "key")
    [] i = 6 -> StrIncludes(lx, "ssn") \/ MatchDotted(lx, "social", "security")
    [] i = 7 -> MatchDotted(lx, "credit", "card") \/ StrIncludes(lx, "ccn")
    [] OTHER -> MatchCardNumber(x)

\* sensitivePatterns[i].pattern.test(x)
PatternTest(i, x) == PatternMatch(i, x, LowerCase(x))

(***************************************************************************)
(* checkNodeSecurity: the detector catalog, in source order.  A finding    *)
(* (SecurityIssue) carries severity, type, message, nodeId and nodeName;   *)
(* its description and remediation are literals fixed by the type and are  *)
(* left out.  Each detector below gives the findings it appends.           *)
(***************************************************************************)
Issue(severity, type, message, node, nodeName) ==
  [severity |-> severity, type |-> type, message |-> message,
   nodeId |-> Get(node, "id"), nodeName |-> nodeName]

\* node.parameters?.key
Param(node, key) == OptGet(Get(node, "parameters"), key)

\* node.type.includes(needle), after the sticky-note test has shown it callable
TypeHas(node, needle) == Includes(Get(node, "type"), needle)

\* OWASP LLM-01: Prompt Injection
PromptInjection(node, nodeName) ==
  LET promptContent == Or(Or(Param(node, "prompt"), Param(node, "message")), Str(""))
  IN  IF /\ \/ TypeHas(node, "lmChat") \/ TypeHas(node, "openai")
              \/ TypeHas(node, "gemini") \/ TypeHas(node, "anthropic")
          /\ (Truthy(Param(node, "prompt")) \/ Truthy(Param(node, "message")))
          /\ TypeofString(promptContent)
          /\ StrIncludes(promptContent.s, "{{")
      THEN <<Issue("high", "LLM-01: Prompt Injection",
                   "Dynamic prompt construction detected. User input directly inserted into prompts can lead to prompt injection attacks.",
                   node, nodeName)>>
      ELSE <<>>

\* OWASP LLM-02: Insecure Output Handling
InsecureOutputHandling(node, nodeName) ==
  IF TypeHas(node, "lmChat") \/ TypeHas(node, "openai") \/ TypeHas(node, "gemini")
  THEN <<Issue("medium", "LLM-02: Insecure Output Handling",
               "AI model output used without validation. Unvalidated LLM outputs can contain malicious content or be used in downstream attacks.",
               node, nodeName)>>
  ELSE <<>>

\* OWASP LLM-03: Training Data Poisoning
TrainingDataPoisoning(node, nodeName) ==
  IF Truthy(Param(node, "trainingData")) \/ Truthy(Param(node, "dataset"))
  THEN <<Issue("high", "LLM-03: Training Data Poisoning",
               "Training data source detected. Untrusted training data can compromise model integrity and introduce backdoors.",
               node, nodeName)>>
  ELSE <<>>

\* OWASP LLM-04: Model Denial of Service
ModelDenialOfService(node, nodeName) ==
  IF /\ (TypeHas(node, "lmChat") \/ TypeHas(node, "openai"))
     /\ ~Truthy(Param(node, "maxTokens"))
     /\ ~Truthy(Param(node, "timeout"))
  THEN <<Issue("medium", "LLM-04: Model Denial of Service",
               "No resource limits configured for LLM requests. This can lead to resource exhaustion and service disruption.",
               node, nodeName)>>
  ELSE <<>>

\* the findings of one string value: one per matching pattern, in list order
SensitiveInString(x, node, nodeName) ==
  LET hit(i) ==
        IF PatternTest(i, x)
        THEN <<Issue("high", "LLM-06: Sensitive Information Disclosure",
                     "Potential " \o sensitivePatterns[i]
                       \o " detected in node parameters. Sensitive data in prompts can be logged or exposed.",
                     node, nodeName)>>
        ELSE <<>>
  IN  hit(1) \o hit(2) \o hit(3) \o hit(4) \o hit(5) \o hit(6) \o hit(7) \o hit(8)

RECURSIVE checkForSensitiveData(_, _, _)
RECURSIVE SensitiveInEntries(_, _, _)
\* Object.entries(obj).forEach(([key, value]) => checkForSensitiveData(value, ...))
SensitiveInEntries(vals, node, nodeName) ==
  IF vals = <<>> THEN <<>>
  ELSE checkForSensitiveData(Head(vals), node, nodeName)
       \o SensitiveInEntries(Tail(vals), node, nodeName)

\* checkForSensitiveData(obj): a string is tested, an object or array is
\* walked by its entries, anything else is skipped
checkForSensitiveData(obj, node, nodeName) ==
  IF TypeofString(obj) THEN SensitiveInString(obj.s, node, nodeName)
  ELSE IF TypeofObject(obj) /\ obj # Null
       THEN SensitiveInEntries(ObjectValues(obj), node, nodeName)
  ELSE <<>>

\* OWASP LLM-06: Sensitive Information Disclosure
SensitiveInformationDisclosure(node, nodeName) ==
  IF Truthy(Get(node, "parameters"))
  THEN checkForSensitiveData(Get(node, "parameters"), node, nodeName)
  ELSE <<>>

\* OWASP LLM-07: Insecure Plugin Design
InsecurePluginDesign(node, nodeName) ==
  IF TypeHas(node, "tool") \/ TypeHas(node, "agent")
  THEN <<Issue("medium", "LLM-07: Insecure Plugin Design",
               "LLM tool/plugin usage detected. Insecure plugins can provide unauthorized access to sensitive functions.",
               node, nodeName)>>
  ELSE <<>>

RECURSIVE DecimalValue(_, _)
\* the value of a string of decimal digits
DecimalValue(x, acc) ==
  IF x = "" THEN acc
  ELSE DecimalValue(SubSeq(x, 2, Len(x)),
                    10 * acc + ((CHOOSE i \in 1..10 : CharAt(Digits, i) = CharAt(x, 1)) - 1))

\* ToNumber(v) as [nan, n].  A string converts when it is empty or all decimal
\* digits (the only numeric strings of this model); an array or object
\* converts through its string form.
ToNumber(v) ==
  LET ofString(x) ==
        IF \A i \in 1..Len(x) : IsDigit(CharAt(x, i))
        THEN [nan |-> FALSE, n |-> DecimalValue(x, 0)]
        ELSE [nan |-> TRUE, n |-> 0]
  IN  CASE v.t = "undefined" -> [nan |-> TRUE, n |-> 0]
        [] v.t = "null" -> [nan |-> FALSE, n |-> 0]
        [] v.t = "boolean" -> [nan |-> FALSE, n |-> IF v.s = "true" THEN 1 ELSE 0]
        [] v.t = "number" -> [nan |-> FALSE, n |-> v.n]
        [] OTHER -> ofString(ToStr(v))

\* v > k for a number k
GreaterThan(v, k) == ~ToNumber(v).nan /\ ToNumber(v).n > k

\* the tool count above which an agent is reported
MaxTools == 5

\* OWASP LLM-08: Excessive Agency
ExcessiveAgency(node, nodeName) ==
  LET toolCount == Or(OptGet(Param(node, "tools"), "length"), Num(0))
  IN  IF /\ \/ TypeHas(node, "agent")
              \/ (Truthy(Param(node, "tools")) /\ IsArray(Param(node, "tools")))
          /\ GreaterThan(toolCount, MaxTools)
      THEN <<Issue("high", "LLM-08: Excessive Agency",
                   "Agent configured with " \o ToStr(toolCount)
                     \o " tools. Excessive permissions can lead to unintended actions and security breaches.",
                   node, nodeName)>>
      ELSE <<>>

\* OWASP LLM-09: Overreliance
Overreliance(node, nodeName) ==
  IF /\ TypeHas(node, "lmChat")
     /\ ~Truthy(Param(node, "fallback"))
     /\ ~Truthy(Param(node, "validation"))
  THEN <<Issue("medium", "LLM-09: Overreliance",
               "No fallback or validation mechanisms detected. Overreliance on LLM outputs without verification can lead to critical failures.",
               node, nodeName)>>
  ELSE <<>>

\* OWASP LLM-10: Model Theft
ModelTheft(node, nodeName) ==
  IF Truthy(Param(node, "modelPath")) \/ Truthy(Param(node, "modelUrl"))
  THEN <<Issue("medium", "LLM-10: Model Theft",
               "Custom model path/URL detected. Exposed model endpoints can lead to intellectual property theft.",
               node, nodeName)>>
  ELSE <<>>

\* Agentic AI: planning and reasoning
InsecurePlanning(node, nodeName) ==
  IF TypeHas(node, "agent") \/ TypeHas(node, "planning")
  THEN <<Issue("medium", "Agentic AI: Insecure Planning",
               "AI agent planning capabilities detected. Insecure planning can lead to unintended or malicious action sequences.",
               node, nodeName)>>
  ELSE <<>>

\* Agentic AI: memory and context
MemoryPoisoning(node, nodeName) ==
  IF TypeHas(node, "memory") \/ TypeHas(node, "buffer")
  THEN <<Issue("medium", "Agentic AI: Memory Poisoning",
               "AI memory/buffer system detected. Compromised memory can persist malicious information across sessions.",
               node, nodeName)>>
  ELSE <<>>

(***************************************************************************)
(* Exceptions.  An operation that can throw gives [threw, msg, ...]; msg   *)
(* is error.message, worded as V8 words its TypeErrors.                    *)
(***************************************************************************)
CannotRead(v, key) ==
  "Cannot read properties of " \o ToStr(v) \o " (reading '" \o key \o "')"

NotAFunction(expr) == expr \o " is not a function"

RECURSIVE CredentialLoop(_, _, _, _)
\* Object.keys(node.credentials).forEach(credType => ...): reading .id of an
\* entry that is null throws
CredentialLoop(keys, node, nodeName, acc) ==
  IF keys = <<>> THEN [threw |-> FALSE, msg |-> "", issues |-> acc]
  ELSE LET credType == Head(keys)
           entry == Get(Get(node, "credentials"), credType)
       IN  IF IsNullish(entry)
           THEN [threw |-> TRUE, msg |-> CannotRead(entry, "id"), issues |-> acc]
           ELSE CredentialLoop(Tail(keys), node, nodeName,
                  IF Truthy(Get(entry, "id"))
                  THEN Append(acc,
                         Issue("low", "Credential Reference",
                               "Node references credential of type '" \o credType
                                 \o "'. Ensure credentials are properly secured.",
                               node, nodeName))
                  ELSE acc)

\* Credential exposure
CredentialReference(node, nodeName) ==
  IF Truthy(Get(node, "credentials"))
  THEN CredentialLoop(ObjectKeys(Get(node, "credentials")), node, nodeName, <<>>)
  ELSE [threw |-> FALSE, msg |-> "", issues |-> <<>>]

codeExecutionNodes ==
  {"n8n-nodes-base.code", "n8n-nodes-base.function", "n8n-nodes-base.functionItem"}

\* Code execution nodes: codeExecutionNodes.includes(node.type)
CodeExecutionRisk(node, nodeName) ==
  IF TypeofString(Get(node, "type")) /\ Get(node, "type").s \in codeExecutionNodes
  THEN <<Issue("high", "Code Execution Risk",
               "Node can execute custom code. Malicious code execution can compromise the entire system.",
               node, nodeName)>>
  ELSE <<>>

\* HTTP request nodes
ExternalHttpRequest(node, nodeName) ==
  LET url == Param(node, "url")
      plain == StrIncludes(url.s, "http://")
  IN  IF /\ Get(node, "type") = Str("n8n-nodes-base.httpRequest")
         /\ Truthy(url)
         /\ TypeofString(url)
         /\ (StrIncludes(url.s, "http://") \/ StrIncludes(url.s, "https://"))
      THEN <<Issue(IF plain THEN "high" ELSE "medium", "External HTTP Request",
                   "Node makes HTTP requests to: " \o url.s \o ". "
                     \o (IF plain
                         THEN "Unencrypted HTTP connections expose data in transit."
                         ELSE "External requests may leak sensitive data."),
                   node, nodeName)>>
      ELSE <<>>

\* Webhook/form trigger nodes
WebhookExposure(node, nodeName) ==
  IF /\ (TypeHas(node, "trigger") \/ TypeHas(node, "webhook") \/ TypeHas(node, "form"))
     /\ (Truthy(Get(node, "webhookId")) \/ TypeHas(node, "webhook"))
  THEN <<Issue("medium", "Webhook Exposure",
               "Node exposes a webhook endpoint. Unsecured webhooks can be exploited by attackers.",
               node, nodeName)>>
  ELSE <<>>

\* Social media integrations
SocialMediaIntegrationRisk(node, nodeName) ==
  IF TypeHas(node, "linkedIn") \/ TypeHas(node, "twitter") \/ TypeHas(node, "facebook")
  THEN <<Issue("medium", "Social Media Integration Risk",
               "Node integrates with social media platforms. Compromised accounts can lead to reputation damage and data exposure.",
               node, nodeName)>>
  ELSE <<>>

\* Database connections
DatabaseSecurityRisk(node, nodeName) ==
  IF TypeHas(node, "postgres") \/ TypeHas(node, "mysql") \/ TypeHas(node, "database")
  THEN <<Issue("high", "Database Security Risk",
               "Direct database access detected. Improper database queries can lead to SQL injection and data breaches.",
               node, nodeName)>>
  ELSE <<>>

\* File system operations
FileSystemAccessRisk(node, nodeName) ==
  IF TypeHas(node, "file") \/ TypeHas(node, "fs")
  THEN <<Issue("medium", "File System Access Risk",
               "File system operations detected. Unrestricted file access can lead to data exposure and system compromise.",
               node, nodeName)>>
  ELSE <<>>

\* node.type.includes(...) can be evaluated: node.type is neither undefined
\* nor null, and has an includes method
TypeUsable(node) == ~IsNullish(Get(node, "type")) /\ HasIncludes(Get(node, "type"))

\* the TypeError node.type.includes(...) throws when ~TypeUsable(node)
TypeError(node) ==
  IF IsNullish(Get(node, "type")) THEN CannotRead(Get(node, "type"), "includes")
  ELSE NotAFunction("node.type.includes")

\* the sticky-note test comparing the whole type instead of searching it
IsStickyNoteExact(node) == Get(node, "type") = Str("stickyNote")

\* the sticky-note test both checkNodeSecurity and the node count apply
IsStickyNote(node) == TypeHas(node, "stickyNote")

\* node.name || node.id || "Unknown"
NodeName(node) == Or(Or(Get(node, "name"), Get(node, "id")), Str("Unknown"))

\* the detectors after the credential loop; cred is the outcome of that loop
\* and issues the list the detectors before it left
AfterCredentials(node, nodeName, issues, cred) ==
  IF cred.threw
  THEN [threw |-> TRUE, msg |-> cred.msg, issues |-> issues \o cred.issues]
  ELSE [threw |-> FALSE, msg |-> "",
        issues |-> issues
                     \o cred.issues
                     \o CodeExecutionRisk(node, nodeName)
                     \o ExternalHttpRequest(node, nodeName)
                     \o WebhookExposure(node, nodeName)
                     \o SocialMediaIntegrationRisk(node, nodeName)
                     \o DatabaseSecurityRisk(node, nodeName)
                     \o FileSystemAccessRisk(node, nodeName)]

\* the detector catalog on a node that is no sticky note, in source order
Catalog(node, nodeName, securityIssues) ==
  AfterCredentials(node, nodeName,
    securityIssues
      \o PromptInjection(node, nodeName)
      \o InsecureOutputHandling(node, nodeName)
      \o TrainingDataPoisoning(node, nodeName)
      \o ModelDenialOfService(node, nodeName)
      \o SensitiveInformationDisclosure(node, nodeName)
      \o InsecurePluginDesign(node, nodeName)
      \o ExcessiveAgency(node, nodeName)
      \o Overreliance(node, nodeName)
      \o ModelTheft(node, nodeName)
      \o InsecurePlanning(node, nodeName)
      \o MemoryPoisoning(node, nodeName),
    CredentialReference(node, nodeName))

\* checkNodeSecurity(node, securityIssues) for a non-nullish node:
\* [threw, msg, issues], issues being securityIssues with the node's findings
\* appended.  An exception leaves the function at the point it is thrown.
checkNodeSecurity(node, securityIssues) ==
  IF ~TypeUsable(node)
  THEN [threw |-> TRUE, msg |-> TypeError(node), issues |-> securityIssues]
  ELSE IF IsStickyNote(node)
  THEN [threw |-> FALSE, msg |-> "", issues |-> securityIssues]
  ELSE Catalog(node, NodeName(node), securityIssues)

(***************************************************************************)
(* validateN8nWorkflow.  A report (ValidationResult) is a record; its      *)
(* optional workflowInfo is <<>> when absent and <<info>> when present.    *)
(***************************************************************************)
Report(valid, n8n, errors, warnings, info, issues, wfInfo) ==
  [isValid |-> valid, isN8nWorkflow |-> n8n, errors |-> errors, warnings |-> warnings,
   info |-> info, securityIssues |-> issues, workflowInfo |-> wfInfo]

\* the report every handler builds for a failure: one error, nothing else
ErrorReport(message) == Report(FALSE, FALSE, <<message>>, <<>>, <<>>, <<>>, <<>>)

\* the classification taking every truthy document for a workflow
isN8nWorkflowAnyValue(data) == data

\* the classification without the name attribute
isN8nWorkflowNoName(data) ==
  IF ~Truthy(data) THEN data
  ELSE Or(Or(Get(data, "nodes"), Get(data, "connections")),
          OptGet(Get(data, "meta"), "instanceId"))

\* data && (data.nodes || data.connections || data.meta?.instanceId || data.name)
isN8nWorkflow(data) ==
  IF ~Truthy(data) THEN data
  ELSE Or(Or(Or(Get(data, "nodes"), Get(data, "connections")),
             OptGet(Get(data, "meta"), "instanceId")),
          Get(data, "name"))

\* `${node.name || node.id || index}`
NodeLabel(node, index) == ToStr(Or(Or(Get(node, "name"), Get(node, "id")), Num(index)))

\* the errors after the id and type checks of one node
NodeErrors(node, index, errors) ==
  (errors
     \o (IF ~Truthy(Get(node, "id"))
         THEN <<"Node at index " \o ToString(index) \o " is missing required 'id' field">>
         ELSE <<>>))
    \o (IF ~Truthy(Get(node, "type"))
        THEN <<"Node '" \o NodeLabel(node, index) \o "' is missing required 'type' field">>
        ELSE <<>>)

\* the warnings after the typeVersion check of one node
NodeWarnings(node, index, warnings) ==
  IF ~Truthy(Get(node, "typeVersion"))
  THEN Append(warnings, "Node '" \o NodeLabel(node, index) \o "' is missing 'typeVersion' field")
  ELSE warnings

\* the lists after one iteration; sec is what checkNodeSecurity gave
LoopState(errors, warnings, sec) ==
  [errors |-> errors, warnings |-> warnings, securityIssues |-> sec.issues,
   threw |-> sec.threw, msg |-> sec.msg]

RECURSIVE NodesLoop(_, _, _)
\* data.nodes.forEach((node, index) => ...) from element i on; acc holds the
\* lists built so far.  Reading node.id of a null element throws.
NodesLoop(nodes, i, acc) ==
  IF acc.threw \/ i > Len(nodes) THEN acc
  ELSE IF IsNullish(nodes[i])
  THEN [acc EXCEPT !.threw = TRUE, !.msg = CannotRead(nodes[i], "id")]
  ELSE NodesLoop(nodes, i + 1,
         LoopState(NodeErrors(nodes[i], i - 1, acc.errors),
                   NodeWarnings(nodes[i], i - 1, acc.warnings),
                   checkNodeSecurity(nodes[i], acc.securityIssues)))

\* the edges of one output slot list: outputs.forEach(outputConnections => ...)
RECURSIVE CountOutputs(_)
CountOutputs(outputs) ==
  IF outputs = <<>> THEN 0
  ELSE (IF IsArray(Head(outputs)) THEN Len(Head(outputs).kids) ELSE 0)
       + CountOutputs(Tail(outputs))

\* Object.values(nodeConnections).forEach(outputs => ...)
RECURSIVE CountCategories(_)
CountCategories(categories) ==
  IF categories = <<>> THEN 0
  ELSE (IF IsArray(Head(categories)) THEN CountOutputs(Head(categories).kids) ELSE 0)
       + CountCategories(Tail(categories))

\* Object.values(data.connections).forEach(nodeConnections => ...)
RECURSIVE CountSources(_)
CountSources(sources) ==
  IF sources = <<>> THEN 0
  ELSE (IF Truthy(Head(sources)) /\ TypeofObject(Head(sources))
        THEN CountCategories(ObjectValues(Head(sources))) ELSE 0)
       + CountSources(Tail(sources))

\* connectionCount
connectionCount(data) ==
  IF Truthy(Get(data, "connections"))
  THEN CountSources(ObjectValues(Get(data, "connections")))
  ELSE 0

\* the meta messages pushed onto info
MetaInfo(data) ==
  LET meta == Get(data, "meta")
  IN  IF ~Truthy(meta) THEN <<>>
      ELSE (IF Truthy(Get(meta, "instanceId"))
            THEN <<"Workflow from instance: " \o ToStr(Get(meta, "instanceId"))>>
            ELSE <<>>)
           \o (IF Truthy(Get(meta, "templateCredsSetupCompleted"))
               THEN <<"Template credentials setup completed">>
               ELSE <<>>)

\* data.nodes.filter(node => !node.type.includes("stickyNote")) as
\* [threw, msg, nodes]: data.nodes must have a filter method, and every
\* element a type with an includes method
actualNodes(data) ==
  LET nodes == Get(data, "nodes")
      bad == {i \in 1..Len(nodes.kids) :
                IsNullish(nodes.kids[i]) \/ ~TypeUsable(nodes.kids[i])}
      first == CHOOSE i \in bad : \A j \in bad : i <= j
      NotSticky(node) == ~IsStickyNote(node)
  IN  IF IsNullish(nodes)
      THEN [threw |-> TRUE, msg |-> CannotRead(nodes, "filter"), nodes |-> <<>>]
      ELSE IF ~IsArray(nodes)
      THEN [threw |-> TRUE, msg |-> NotAFunction("data.nodes.filter"), nodes |-> <<>>]
      ELSE IF bad # {}
      THEN [threw |-> TRUE,
            msg |-> IF IsNullish(nodes.kids[first])
                    THEN CannotRead(nodes.kids[first], "type")
                    ELSE TypeError(nodes.kids[first]),
            nodes |-> <<>>]
      ELSE [threw |-> FALSE, msg |-> "", nodes |-> SelectSeq(nodes.kids, NotSticky)]

\* a normal return of validateN8nWorkflow
Returned(report) == [threw |-> FALSE, msg |-> "", report |-> <<report>>]

\* an exception leaving validateN8nWorkflow: no report is returned
Thrown(message) == [threw |-> TRUE, msg |-> message, report |-> <<>>]

\* the errors of the two top-level checks
TopLevelErrors(data) ==
  (IF ~Truthy(Get(data, "nodes")) \/ ~IsArray(Get(data, "nodes"))
   THEN <<"Missing or invalid 'nodes' array">> ELSE <<>>)
    \o (IF ~Truthy(Get(data, "connections")) \/ ~TypeofObject(Get(data, "connections"))
        THEN <<"Missing or invalid 'connections' object">> ELSE <<>>)

\* the lists before the node loop
LoopStart(data) ==
  [errors |-> TopLevelErrors(data), warnings |-> <<>>, securityIssues |-> <<>>,
   threw |-> FALSE, msg |-> ""]

\* workflowInfo, count being actualNodes.length
WorkflowInfo(data, count) ==
  [name |-> Or(Get(data, "name"), Str("Unnamed Workflow")),
   nodes |-> count,
   connections |-> connectionCount(data),
   version |-> OptGet(Get(data, "meta"), "version")]

\* the info list: the meta messages, then the summary line
InfoList(data, wfInfo) ==
  Append(MetaInfo(data),
         "Workflow contains " \o ToString(wfInfo.nodes) \o " nodes and "
           \o ToString(wfInfo.connections) \o " connections")

\* the returned object if findings counted against validity
FinalReportCleanOnly(data, loop, wfInfo) ==
  Report(loop.errors = <<>> /\ loop.securityIssues = <<>>, TRUE, loop.errors,
         loop.warnings, InfoList(data, wfInfo), loop.securityIssues, <<wfInfo>>)

\* the returned object, wfInfo being workflowInfo
FinalReport(data, loop, wfInfo) ==
  Report(loop.errors = <<>>, TRUE, loop.errors, loop.warnings, InfoList(data, wfInfo),
         loop.securityIssues, <<wfInfo>>)

\* the outcome of a workflow-like document: loop is the state the node loop
\* left, actual the outcome of the node filter
Outcome(data, loop, actual) ==
  IF loop.threw THEN Thrown(loop.msg)
  ELSE IF actual.threw THEN Thrown(actual.msg)
  ELSE Returned(FinalReport(data, loop, WorkflowInfo(data, Len(actual.nodes))))

\* validateN8nWorkflow(data): [threw, msg, report], report being <<r>> on return
validateN8nWorkflow(data) ==
  IF ~Truthy(isN8nWorkflow(data))
  THEN Returned(Report(FALSE, FALSE,
                       <<"This doesn't appear to be an n8n workflow file">>,
                       <<>>, <<>>, <<>>, <<>>))
  ELSE Outcome(data,
               IF Truthy(Get(data, "nodes")) /\ IsArray(Get(data, "nodes"))
               THEN NodesLoop(Get(data, "nodes").kids, 1, LoopStart(data))
               ELSE LoopStart(data),
               actualNodes(data))

(***************************************************************************)
(* Rendering.  What the page and the components of                         *)
(* src/components/report-generator.tsx compute from result and             *)
(* workflowData on every render.  Each computation gives [threw, msg, ...];*)
(* an exception thrown while rendering takes the page down.  The layout    *)
(* (positions, colours, labels) is left out.                               *)
(***************************************************************************)
\* {workflowData && result && (...)}: the condition under which page.tsx
\* renders WorkflowVisualization and ReportGenerator
Rendered(data, res) == Truthy(data) /\ res # <<>>

\* the names every object inherits from Object.prototype; reading one of them
\* from an object that has no own property of that name gives a truthy value
ObjectPrototypeNames ==
  {"constructor", "toString", "toLocaleString", "valueOf", "hasOwnProperty",
   "isPrototypeOf", "propertyIsEnumerable", "__proto__"}

\* the member of Object.prototype of that name
Inherited(key) == [t |-> "function", s |-> key, n |-> 0, kids |-> <<>>]

\* the entries of Object.fromEntries(pairs): a later pair of the same key
\* replaces the value of the earlier one
RECURSIVE FromEntries(_, _)
FromEntries(pairs, acc) ==
  IF pairs = <<>> THEN acc
  ELSE LET pair == Head(pairs)
           own == {i \in 1..Len(acc) : acc[i].k = pair.k}
       IN  FromEntries(Tail(pairs),
             IF own = {} THEN Append(acc, pair)
             ELSE [acc EXCEPT ![CHOOSE i \in own : TRUE].v = pair.v])

\* Object.fromEntries(workflowData.nodes.map(node => [node.name, node.id])) as
\* [threw, msg, map]: it is evaluated before workflowData.nodes is tested
nodeNameToIdMap(workflowData_) ==
  LET nodes == Get(workflowData_, "nodes")
      bad == {i \in 1..Len(nodes.kids) : IsNullish(nodes.kids[i])}
      first == CHOOSE i \in bad : \A j \in bad : i <= j
  IN  IF IsNullish(nodes)
      THEN [threw |-> TRUE, msg |-> CannotRead(nodes, "map"), map |-> <<>>]
      ELSE IF ~IsArray(nodes)
      THEN [threw |-> TRUE, msg |-> NotAFunction("workflowData.nodes.map"), map |-> <<>>]
      ELSE IF bad # {}
      THEN [threw |-> TRUE, msg |-> CannotRead(nodes.kids[first], "name"), map |-> <<>>]
      ELSE [threw |-> FALSE, msg |-> "",
            map |-> FromEntries([i \in 1..Len(nodes.kids) |->
                                   KV(ToStr(Get(nodes.kids[i], "name")),
                                      Get(nodes.kids[i], "id"))], <<>>)]

\* map[key] for the plain object map
Lookup(map, key) ==
  LET own == {i \in 1..Len(map) : map[i].k = key}
  IN  IF own # {} THEN map[CHOOSE i \in own : TRUE].v
      ELSE IF key \in ObjectPrototypeNames THEN Inherited(key)
      ELSE Undefined

\* securityIssues.filter(issue => issue.nodeId === nodeId)
nodeIssues(securityIssues, nodeId) ==
  LET Same(issue) == issue.nodeId = nodeId
  IN  SelectSeq(securityIssues, Same)

\* the level if it were the severity of the node's first finding
getNodeSecurityLevelFirst(securityIssues, nodeId) ==
  LET found == nodeIssues(securityIssues, nodeId)
  IN  IF Len(found) = 0 THEN "safe" ELSE found[1].severity

\* getNodeSecurityLevel(nodeId)
getNodeSecurityLevel(securityIssues, nodeId) ==
  LET found == nodeIssues(securityIssues, nodeId)
      hasHigh == \E i \in 1..Len(found) : found[i].severity = "high"
      hasMedium == \E i \in 1..Len(found) : found[i].severity = "medium"
  IN  IF Len(found) = 0 THEN "safe"
      ELSE IF hasHigh THEN "high"
      ELSE IF hasMedium THEN "medium"
      ELSE "low"

\* the element workflowData.nodes.map builds of a node
processedNode(node, securityIssues) ==
  [id |-> Get(node, "id"),
   type |-> IF IsStickyNote(node) THEN "sticky" ELSE "custom",
   securityLevel |-> getNodeSecurityLevel(securityIssues, Get(node, "id")),
   issueCount |-> Len(nodeIssues(securityIssues, Get(node, "id")))]

\* processedNodes as [threw, msg, nodes]: node.type.includes must be callable,
\* and so must node.type.split when the label falls back on the type
processedNodes(workflowData_, securityIssues) ==
  LET nodes == Get(workflowData_, "nodes").kids
      NoLabel(node) ==
        ~IsStickyNote(node) /\ ~Truthy(Get(node, "name")) /\ ~TypeofString(Get(node, "type"))
      bad == {i \in 1..Len(nodes) : ~TypeUsable(nodes[i]) \/ NoLabel(nodes[i])}
      first == CHOOSE i \in bad : \A j \in bad : i <= j
  IN  IF bad # {}
      THEN [threw |-> TRUE,
            msg |-> IF ~TypeUsable(nodes[first]) THEN TypeError(nodes[first])
                    ELSE NotAFunction("node.type.split"),
            nodes |-> <<>>]
      ELSE [threw |-> FALSE, msg |-> "",
            nodes |-> [i \in 1..Len(nodes) |-> processedNode(nodes[i], securityIssues)]]

\* outputArray.forEach(connection => ...): an edge for every entry with a
\* truthy node attribute
RECURSIVE OutputEdges(_, _, _, _)
OutputEdges(outputArray, sourceNodeId, connectionType, map) ==
  IF outputArray = <<>> THEN <<>>
  ELSE LET connection == Head(outputArray)
           target == OptGet(connection, "node")
       IN  (IF Truthy(connection) /\ Truthy(target)
            THEN <<[source |-> sourceNodeId,
                    target |-> Or(Lookup(map, ToStr(target)), target),
                    connectionType |-> connectionType]>>
            ELSE <<>>)
           \o OutputEdges(Tail(outputArray), sourceNodeId, connectionType, map)

\* connectionData.forEach(outputArray => ...)
RECURSIVE TypeEdges(_, _, _, _)
TypeEdges(connectionData, sourceNodeId, connectionType, map) ==
  IF connectionData = <<>> THEN <<>>
  ELSE (IF IsArray(Head(connectionData))
        THEN OutputEdges(Head(connectionData).kids, sourceNodeId, connectionType, map)
        ELSE <<>>)
       \o TypeEdges(Tail(connectionData), sourceNodeId, connectionType, map)

\* Object.entries(sourceConnections).forEach(([connectionType, connectionData]) => ...)
RECURSIVE SourceTypeEdges(_, _, _, _)
SourceTypeEdges(keys, vals, sourceNodeId, map) ==
  IF keys = <<>> THEN <<>>
  ELSE (IF IsArray(Head(vals))
        THEN TypeEdges(Head(vals).kids, sourceNodeId, Head(keys), map)
        ELSE <<>>)
       \o SourceTypeEdges(Tail(keys), Tail(vals), sourceNodeId, map)

\* Object.entries(workflowData.connections).forEach(([sourceNodeName,
\* sourceConnections]) => ...): a source the map gives no truthy id is skipped
RECURSIVE ConnectionEdges(_, _, _)
ConnectionEdges(keys, vals, map) ==
  IF keys = <<>> THEN <<>>
  ELSE LET sourceNodeId == Lookup(map, Head(keys))
           sourceConnections == Head(vals)
       IN  (IF /\ Truthy(sourceNodeId)
               /\ Truthy(sourceConnections)
               /\ TypeofObject(sourceConnections)
            THEN SourceTypeEdges(ObjectKeys(sourceConnections),
                                 ObjectValues(sourceConnections), sourceNodeId, map)
            ELSE <<>>)
           \o ConnectionEdges(Tail(keys), Tail(vals), map)

\* processedEdges
processedEdges(workflowData_, map) ==
  LET connections == Get(workflowData_, "connections")
  IN  IF Truthy(connections) /\ TypeofObject(connections)
      THEN ConnectionEdges(ObjectKeys(connections), ObjectValues(connections), map)
      ELSE <<>>

\* the useMemo of WorkflowVisualization once the name map is built
Visualized(workflowData_, securityIssues, named, nodes) ==
  IF named.threw
  THEN [threw |-> TRUE, msg |-> named.msg, processedNodes |-> <<>>, processedEdges |-> <<>>]
  ELSE IF ~Truthy(Get(workflowData_, "nodes"))
  THEN [threw |-> FALSE, msg |-> "", processedNodes |-> <<>>, processedEdges |-> <<>>]
  ELSE IF nodes.threw
  THEN [threw |-> TRUE, msg |-> nodes.msg, processedNodes |-> <<>>, processedEdges |-> <<>>]
  ELSE [threw |-> FALSE, msg |-> "", processedNodes |-> nodes.nodes,
        processedEdges |-> processedEdges(workflowData_, named.map)]

\* WorkflowVisualization({workflowData, securityIssues}) for a truthy
\* workflowData: [threw, msg, processedNodes, processedEdges]
WorkflowVisualization(workflowData_, securityIssues) ==
  LET named == nodeNameToIdMap(workflowData_)
  IN  Visualized(workflowData_, securityIssues, named,
                 IF named.threw THEN named
                 ELSE processedNodes(workflowData_, securityIssues))

\* calculateSecureNodes() of ReportGenerator as [threw, msg, count];
\* generateReportHTML repeats the computation for secureNodesCount
calculateSecureNodes(workflowData_, result_) ==
  LET actual == actualNodes(workflowData_)
      ids == {result_.securityIssues[i].nodeId : i \in 1..Len(result_.securityIssues)}
      nodesWithIssues == {id \in ids : Truthy(id)}
      Secure(node) == Get(node, "id") \notin nodesWithIssues
  IN  IF ~Truthy(OptGet(workflowData_, "nodes"))
      THEN [threw |-> FALSE, msg |-> "", count |-> 0]
      ELSE IF actual.threw
      THEN [threw |-> TRUE, msg |-> actual.msg, count |-> 0]
      ELSE [threw |-> FALSE, msg |-> "", count |-> Len(SelectSeq(actual.nodes, Secure))]

\* result.securityIssues.reduce((acc, issue) => ...) as [threw, msg, groups],
\* groups being the entries [key, issues] of acc in insertion order: a key
\* that acc inherits is truthy without being an array, and push is missing
RECURSIVE issuesByNode(_, _)
issuesByNode(securityIssues, acc) ==
  IF securityIssues = <<>> THEN [threw |-> FALSE, msg |-> "", groups |-> acc]
  ELSE LET issue == Head(securityIssues)
           nodeKey == ToStr(Or(issue.nodeName, Str("Unknown Node")))
           own == {i \in 1..Len(acc) : acc[i].key = nodeKey}
       IN  IF own # {}
           THEN issuesByNode(Tail(securityIssues),
                  [acc EXCEPT ![CHOOSE i \in own : TRUE].issues = Append(@, issue)])
           ELSE IF nodeKey \in ObjectPrototypeNames
           THEN [threw |-> TRUE, msg |-> NotAFunction("acc[nodeKey].push"), groups |-> acc]
           ELSE issuesByNode(Tail(securityIssues),
                  Append(acc, [key |-> nodeKey, issues |-> <<issue>>]))

\* rendering the page in the state (workflowData_, result_) throws
RenderThrows(workflowData_, result_) ==
  /\ result_ # <<>>
  /\ \/ issuesByNode(result_[1].securityIssues, <<>>).threw
     \/ /\ Truthy(workflowData_)
        /\ \/ WorkflowVisualization(workflowData_, result_[1].securityIssues).threw
           \/ calculateSecureNodes(workflowData_, result_[1]).threw

\* the page is on screen: no render has thrown
Mounted == ~RenderThrows(workflowData, result)

(***************************************************************************)
(* The handlers of N8nAnalyzer.  result is <<>> for null and <<report>>    *)
(* otherwise; workflowData is a JavaScript value, Null at first.  readers  *)
(* holds the files whose FileReader is still reading, timers the contents  *)
(* whose delayed analysis (setTimeout 100) is still to run, oldest first.  *)
(* Once a render has thrown the component is unmounted: the callbacks      *)
(* still run, and their setters change nothing.                            *)
(***************************************************************************)
\* the report of the catch block
CatchReport(message) == ErrorReport("Invalid JSON format: " \o message)

\* the try block if the catch block handled nothing but JSON.parse: an exception
\* of validateN8nWorkflow leaves analyzeJson, the finally block still runs
ValidatedUncaught(parsed, validation) ==
  IF validation.threw
  THEN [result |-> <<>>, workflowData |-> parsed, isAnalyzing |-> FALSE]
  ELSE [result |-> validation.report, workflowData |-> parsed, isAnalyzing |-> FALSE]

\* the try block after JSON.parse returned parsed, and the catch block around
\* it; validation is the outcome of validateN8nWorkflow(parsed)
Validated(parsed, validation) ==
  IF validation.threw
  THEN [result |-> <<CatchReport(validation.msg)>>, workflowData |-> Null,
        isAnalyzing |-> FALSE]
  ELSE [result |-> validation.report, workflowData |-> parsed, isAnalyzing |-> FALSE]

\* the try / catch / finally, parsed being the outcome of JSON.parse
Parsed(parsed) ==
  IF parsed.threw
  THEN [result |-> <<CatchReport(parsed.msg)>>, workflowData |-> Null,
        isAnalyzing |-> FALSE]
  ELSE Validated(parsed.val, validateN8nWorkflow(parsed.val))

\* the try / catch / finally of analyzeJson (the timer callback of processFile
\* repeats it verbatim): the values the three setters leave, result being <<>>
\* if setResult was never reached
tryAnalyze(text) == Parsed(JSONparse(text))

\* the setters if the lists of a report were kept between analyses: the errors
\* of the report before are carried into the next one
InstallCarrying(out) ==
  /\ result' = (IF out.result = <<>> \/ result = <<>> THEN out.result
                ELSE <<[out.result[1] EXCEPT !.errors = result[1].errors \o @]>>)
  /\ workflowData' = out.workflowData
  /\ isAnalyzing' = out.isAnalyzing

\* the state the setters of a try / catch / finally run leave behind
Install(out) ==
  /\ result' = (IF out.result = <<>> THEN result ELSE out.result)
  /\ workflowData' = out.workflowData
  /\ isAnalyzing' = out.isAnalyzing

\* analyzeJson()
analyzeJson ==
  /\ IF TrimIsEmpty(jsonInput)
     THEN /\ result' = <<ErrorReport("Please provide JSON input")>>
          /\ UNCHANGED <<workflowData, isAnalyzing>>
     ELSE Install(tryAnalyze(jsonInput))
  /\ UNCHANGED <<jsonInput, readers, timers>>

\* the Analyze button: onClick={analyzeJson}, disabled={isAnalyzing || !jsonInput.trim()}
ClickAnalyze ==
  /\ ~isAnalyzing
  /\ ~TrimIsEmpty(jsonInput)
  /\ analyzeJson

\* file.type.includes("json") || file.name.endsWith(".json")
IsJsonFile(file) == StrIncludes(file.type, "json") \/ EndsWith(file.name, ".json")

\* processFile(file): a file that is not JSON is refused with a report, any
\* other is handed to a FileReader
processFile(file) ==
  IF ~IsJsonFile(file)
  THEN /\ result' = <<ErrorReport("Please upload a JSON file")>>
       /\ UNCHANGED <<jsonInput, workflowData, isAnalyzing, readers, timers>>
  ELSE /\ readers' = Append(readers, file)
       /\ UNCHANGED <<jsonInput, result, workflowData, isAnalyzing, timers>>

\* reader.onload of the i-th pending read: the content becomes the input and
\* its analysis is scheduled
readerOnload(i) ==
  /\ i \in 1..Len(readers)
  /\ jsonInput' = (IF Mounted THEN readers[i].content ELSE jsonInput)
  /\ timers' = Append(timers, readers[i].content)
  /\ readers' = SubSeq(readers, 1, i - 1) \o SubSeq(readers, i + 1, Len(readers))
  /\ UNCHANGED <<result, workflowData, isAnalyzing>>

\* reader.onerror of the i-th pending read
readerOnerror(i) ==
  /\ i \in 1..Len(readers)
  /\ result' = (IF Mounted THEN <<ErrorReport("Failed to read file")>> ELSE result)
  /\ readers' = SubSeq(readers, 1, i - 1) \o SubSeq(readers, i + 1, Len(readers))
  /\ UNCHANGED <<jsonInput, workflowData, isAnalyzing, timers>>

\* the setTimeout callback of the oldest scheduled analysis
timerFires ==
  /\ timers # <<>>
  /\ IF Mounted THEN Install(tryAnalyze(Head(timers)))
     ELSE UNCHANGED <<result, workflowData, isAnalyzing>>
  /\ timers' = Tail(timers)
  /\ UNCHANGED <<jsonInput, readers>>

(***************************************************************************)
(* Inputs: the documents and raw texts the handlers are exercised on.      *)
(***************************************************************************)
\* the most nodes a generated nodes list holds
MaxNodes == 2

\* the most file reads and delayed analyses pending at once
MaxPending == 2

RECURSIVE TextOf(_)
RECURSIVE TextOfElems(_)
RECURSIVE TextOfEntries(_)
TextOfElems(elems) ==
  IF elems = <<>> THEN <<>>
  ELSE TextOf(Head(elems))
       \o (IF Len(elems) > 1 THEN <<P(",")>> \o TextOfElems(Tail(elems)) ELSE <<>>)

TextOfEntries(entries) ==
  IF entries = <<>> THEN <<>>
  ELSE <<S(Head(entries).k), P(":")>> \o TextOf(Head(entries).v)
       \o (IF Len(entries) > 1 THEN <<P(",")>> \o TextOfEntries(Tail(entries)) ELSE <<>>)

\* the compact JSON text of a value
TextOf(v) ==
  CASE v.t = "null" -> <<L("null")>>
    [] v.t = "boolean" -> <<L(v.s)>>
    [] v.t = "number" -> <<N(v.n)>>
    [] v.t = "string" -> <<S(v.s)>>
    [] v.t = "array" -> <<P("[")>> \o TextOfElems(v.kids) \o <<P("]")>>
    [] OTHER -> <<P("{")>> \o TextOfEntries(v.kids) \o <<P("}")>>

\* an object holding the given entries, those whose value is Undefined left out
\* (the attribute is absent)
ObjOf(entries) ==
  LET Present(e) == e.v # Undefined
  IN  Obj(SelectSeq(entries, Present))

\* ---- nodes
CodeNode ==
  Obj(<<KV("id", Str("n1")), KV("name", Str("Code")),
        KV("type", Str("n8n-nodes-base.code")), KV("typeVersion", Num(2)),
        KV("parameters", Obj(<<KV("jsCode", Str("return items"))>>))>>)

StickyNode ==
  Obj(<<KV("id", Str("n2")), KV("name", Str("Note")),
        KV("type", Str("n8n-nodes-base.stickyNote")), KV("typeVersion", Num(1)),
        KV("parameters", Obj(<<KV("content", Str("the admin password"))>>))>>)

\* no id; an LLM chat node with an interpolated prompt
ChatNodeNoId ==
  Obj(<<KV("name", Str("Chat")),
        KV("type", Str("@n8n/n8n-nodes-langchain.lmChatOpenAi")),
        KV("typeVersion", Num(1)),
        KV("parameters", Obj(<<KV("prompt", Str("Answer {{ $json.q }}"))>>))>>)

\* no type and no typeVersion
NoTypeNode == Obj(<<KV("id", Str("n4")), KV("name", Str("Bare"))>>)

\* an empty type string, no name
EmptyTypeNode == Obj(<<KV("id", Str("n5")), KV("type", Str("")), KV("typeVersion", Num(1))>>)

\* no typeVersion; a plaintext URL and a stored credential
HttpNode ==
  Obj(<<KV("id", Str("n6")), KV("name", Str("HTTP")),
        KV("type", Str("n8n-nodes-base.httpRequest")),
        KV("parameters", Obj(<<KV("url", Str("http://example.com/hook"))>>)),
        KV("credentials",
           Obj(<<KV("httpBasicAuth", Obj(<<KV("id", Str("c1")), KV("name", Str("basic"))>>))>>))>>)

\* neither id nor name; a webhook
WebhookNodeBare ==
  Obj(<<KV("type", Str("n8n-nodes-base.webhook")), KV("typeVersion", Num(1)),
        KV("webhookId", Str("w1"))>>)

\* a type that is a number
NumberTypeNode ==
  Obj(<<KV("id", Str("n8")), KV("name", Str("Odd")), KV("type", Num(7)),
        KV("typeVersion", Num(1))>>)

\* a credentials entry that is null
NullCredentialNode ==
  Obj(<<KV("id", Str("n9")), KV("name", Str("DB")),
        KV("type", Str("n8n-nodes-base.postgres")), KV("typeVersion", Num(1)),
        KV("credentials", Obj(<<KV("postgres", Null)>>))>>)

NodePalette ==
  {CodeNode, StickyNode, ChatNodeNoId, NoTypeNode, EmptyTypeNode, HttpNode,
   WebhookNodeBare, NumberTypeNode, NullCredentialNode, Null}

\* every nodes list of at most MaxNodes palette nodes
NodeLists == UNION {[1..n -> NodePalette] : n \in 0..MaxNodes}

\* ---- connection maps
Edge(target) == Obj(<<KV("node", Str(target)), KV("type", Str("main")), KV("index", Num(0))>>)

\* one source, one category, two slots: 3 edges
SimpleConnections ==
  Obj(<<KV("Code", Obj(<<KV("main", Arr(<<Arr(<<Edge("HTTP"), Edge("Chat")>>),
                                           Arr(<<Edge("Note")>>)>>))>>))>>)

\* two sources, main and auxiliary categories: 5 edges
AiConnections ==
  Obj(<<KV("Chat", Obj(<<KV("ai_languageModel", Arr(<<Arr(<<Edge("Code")>>)>>)),
                         KV("ai_tool", Arr(<<Arr(<<Edge("HTTP")>>),
                                              Arr(<<Edge("Code"), Edge("DB")>>)>>))>>)),
        KV("HTTP", Obj(<<KV("main", Arr(<<Arr(<<Edge("Code")>>)>>))>>))>>)

\* malformed branches at each level beside one well-formed slot: 1 edge
RaggedConnections ==
  Obj(<<KV("A", Null), KV("B", Str("text")), KV("C", Num(3)),
        KV("D", Obj(<<KV("main", Str("text")),
                      KV("aux", Obj(<<KV("slot", Arr(<<Edge("Code")>>))>>)),
                      KV("ai_tool", Arr(<<Str("text"), Null, Arr(<<Edge("Code")>>),
                                           Obj(<<KV("node", Str("Code"))>>)>>))>>))>>)

\* a source whose branch is a sequence where a mapping is expected
SequenceBranchConnections ==
  Obj(<<KV("Code", Arr(<<Arr(<<Arr(<<Edge("HTTP"), Edge("Chat")>>)>>)>>))>>)

\* a connections attribute that is a sequence of well-formed branches
SequenceConnections ==
  Arr(<<Obj(<<KV("main", Arr(<<Arr(<<Edge("HTTP")>>)>>))>>)>>)

ConnectionPalette ==
  {Undefined, Null, Obj(<<>>), Str("text"), Num(5), Arr(<<>>), SimpleConnections,
   AiConnections, RaggedConnections, SequenceBranchConnections, SequenceConnections}

\* ---- documents
Doc(name, nodes, connections, meta) ==
  ObjOf(<<KV("name", name), KV("nodes", nodes), KV("connections", connections),
          KV("meta", meta)>>)

NamePalette == {Undefined, Str(""), Str("My workflow")}

MetaPalette ==
  {Undefined, Null,
   Obj(<<KV("instanceId", Str("inst-1"))>>),
   Obj(<<KV("instanceId", Str(""))>>),
   Obj(<<KV("templateCredsSetupCompleted", Bool(TRUE)), KV("version", Num(2))>>)}

NodesPalette ==
  {Undefined, Null, Num(0), Str("text"), Obj(<<>>), Arr(<<>>), Arr(<<CodeNode>>),
   Arr(<<StickyNode, ChatNodeNoId>>)}

\* documents that vary the nodes list
NodeDocs ==
  {Doc(Undefined, Arr(nodes), connections, Undefined) :
     nodes \in NodeLists, connections \in {Undefined, SimpleConnections}}

\* documents that vary the top-level attributes
ShapeDocs ==
  {Doc(name, nodes, connections, meta) :
     name \in NamePalette, nodes \in NodesPalette,
     connections \in ConnectionPalette, meta \in MetaPalette}

\* parsed values that are no objects, or objects with other attributes
OtherValues ==
  {Null, Bool(TRUE), Bool(FALSE), Num(0), Num(5), Str(""), Str("text"), Arr(<<>>),
   Arr(<<CodeNode>>), Obj(<<>>), Obj(<<KV("id", Str("n1"))>>),
   Obj(<<KV("meta", Str("text"))>>), Obj(<<KV("meta", Arr(<<>>))>>)}

Documents == NodeDocs \cup ShapeDocs \cup OtherValues

\* ---- raw texts
\* texts that are empty or only white space
BlankTexts == {<<>>, <<WS>>, <<WS, WS>>, <<UWS>>, <<WS, UWS>>}

\* texts JSON.parse rejects
BrokenTexts ==
  {<<UWS, P("{"), P("}")>>, <<BAD>>, <<P("{")>>, <<P("{"), S("name")>>,
   <<P("{"), S("name"), P(":")>>, <<P("{"), S("name"), P(":"), S("wf")>>,
   <<P("{"), S("name"), P(":"), S("wf"), P(",")>>,
   <<P("{"), S("name"), P(":"), S("wf"), P(","), P("}")>>,
   <<P("{"), N(1), P(":"), S("wf"), P("}")>>,
   <<P("{"), S("name"), S("wf"), P("}")>>,
   <<P("["), N(1), P(","), P("]")>>, <<P("["), N(1), N(2), P("]")>>, <<P("["), N(1)>>,
   <<P("]")>>, <<P("}")>>, <<P(":")>>, <<P(",")>>,
   <<P("{"), P("}"), P("{"), P("}")>>, <<N(1), N(2)>>, <<L("null"), BAD>>}
    \cup {TextOf(d) \o <<P("}")>> : d \in {Doc(Str("wf"), Arr(<<CodeNode>>), Obj(<<>>), Undefined)}}
    \cup {SubSeq(TextOf(d), 1, Len(TextOf(d)) - 1) :
            d \in {Doc(Str("wf"), Arr(<<CodeNode>>), Obj(<<>>), Undefined)}}

\* texts with white space between the lexemes, and with a repeated key
SpacedTexts ==
  {<<WS, P("{"), WS, S("name"), WS, P(":"), WS, S("wf"), WS, P("}"), WS>>,
   <<WS, L("null")>>, <<N(5), WS>>,
   <<P("{"), S("name"), P(":"), S(""), P(","), S("name"), P(":"), S("wf"), P("}")>>,
   <<P("{"), S("name"), P(":"), S("wf"), P(","), S("name"), P(":"), S(""), P("}")>>}

Texts == {TextOf(d) : d \in Documents} \cup BlankTexts \cup BrokenTexts \cup SpacedTexts

\* ---- the inputs of the page
\* the texts typed or pasted into the textarea
TypedTexts ==
  {<<>>, <<WS>>, <<P("{")>>, <<L("null")>>,
   TextOf(Doc(Str(""), Undefined, Undefined, Undefined)),
   TextOf(Doc(Str("wf"), Undefined, Undefined, Undefined)),
   TextOf(Doc(Str("wf"), Arr(<<CodeNode, StickyNode>>), SimpleConnections, Undefined)),
   TextOf(Doc(Undefined, Arr(<<ChatNodeNoId>>), Undefined, Undefined)),
   TextOf(Doc(Undefined, Arr(<<NoTypeNode>>), Obj(<<>>), Undefined))}

File(name, type, content) == [name |-> name, type |-> type, content |-> content]

\* the files chosen or dropped
Files ==
  {File("wf.json", "application/json",
        TextOf(Doc(Str("wf"), Arr(<<HttpNode>>), Obj(<<>>), Undefined))),
   File("export", "application/json", <<>>),
   File("notes.txt", "text/plain", TextOf(Doc(Str("wf"), Arr(<<CodeNode>>), Obj(<<>>), Undefined))),
   File("WF.JSON", "", TextOf(Obj(<<>>)))}

\* the files processFile refuses
OtherFiles == {f \in Files : ~IsJsonFile(f)}

\* the file lists of a drop or of the file input: none, one file, or two files
\* of which one is no JSON file
FileLists ==
  {<<>>} \cup {<<f>> : f \in Files}
    \cup {<<f, g>> : f \in OtherFiles, g \in Files}
    \cup {<<g, f>> : f \in OtherFiles, g \in Files}

\* the textarea's onChange: setJsonInput(e.target.value)
setJsonInput(text) ==
  /\ jsonInput' = text
  /\ UNCHANGED <<result, workflowData, isAnalyzing, readers, timers>>

\* handleFileUpload(event): the first file of the input, if any
handleFileUpload(files) ==
  /\ files # <<>>
  /\ Len(readers) + Len(timers) < MaxPending
  /\ processFile(files[1])

\* handleDrop(e): the first JSON file among the dropped ones, else a report
handleDrop(files) ==
  LET json == {i \in 1..Len(files) : IsJsonFile(files[i])}
      first == CHOOSE i \in json : \A j \in json : i <= j
  IN  IF json # {}
      THEN /\ Len(readers) + Len(timers) < MaxPending
           /\ processFile(files[first])
      ELSE /\ result' = <<ErrorReport("Please drop a JSON file")>>
           /\ UNCHANGED <<jsonInput, workflowData, isAnalyzing, readers, timers>>

(***************************************************************************)
(* ReportGenerator.  reportUrl is <<>> for null, else <<props>>, props     *)
(* being the result and workflowData generateReportHTML built the report   *)
(* from.  awaiting is <<>>, or <<props>> while generateReport waits for    *)
(* html2canvas: props are the result and workflowData its closure holds.   *)
(***************************************************************************)
\* key={`report-${JSON.stringify(result.workflowInfo)}-${result.securityIssues.length}`}
reportKey(res) == <<res[1].workflowInfo, Len(res[1].securityIssues)>>

\* what ReportGenerator does after a step of the page that called setResult or
\* setWorkflowData: it is unmounted, or replaced by a fresh one when it was
\* not rendered before or gets another key, and otherwise its effect on
\* [result, workflowData] resets reportUrl
Rerendered ==
  IF \/ ~Rendered(workflowData', result')
     \/ RenderThrows(workflowData', result')
     \/ ~Rendered(workflowData, result)
     \/ reportKey(result') # reportKey(result)
  THEN /\ reportUrl' = <<>>
       /\ isGenerating' = FALSE
       /\ awaiting' = <<>>
  ELSE /\ reportUrl' = <<>>
       /\ UNCHANGED <<isGenerating, awaiting>>

\* generateReport() up to await html2canvas(visualizationRef.current): the
\* button is disabled={isGenerating}
generateReport ==
  /\ Mounted
  /\ Rendered(workflowData, result)
  /\ ~isGenerating
  /\ isGenerating' = TRUE
  /\ awaiting' = <<[result |-> result[1], workflowData |-> workflowData]>>
  /\ UNCHANGED <<jsonInput, result, workflowData, isAnalyzing, readers, timers, reportUrl>>

\* html2canvas resolves: the report is built from the closure's props
html2canvasResolves ==
  /\ awaiting # <<>>
  /\ reportUrl' = awaiting
  /\ isGenerating' = FALSE
  /\ awaiting' = <<>>
  /\ UNCHANGED <<jsonInput, result, workflowData, isAnalyzing, readers, timers>>

\* html2canvas rejects: the catch block logs, the finally block runs
html2canvasRejects ==
  /\ awaiting # <<>>
  /\ isGenerating' = FALSE
  /\ awaiting' = <<>>
  /\ UNCHANGED <<jsonInput, result, workflowData, isAnalyzing, readers, timers, reportUrl>>

(***************************************************************************)
(* Specifications.  Spec is the page: it starts as useState initialises it *)
(* and takes the steps its handlers and callbacks take.  SpecAnalyze       *)
(* applies analyzeJson to every text of Texts.                             *)
(***************************************************************************)
\* a ReportGenerator nobody has clicked yet
NoReport ==
  /\ reportUrl = <<>>
  /\ isGenerating = FALSE
  /\ awaiting = <<>>

Init ==
  /\ jsonInput = <<>>
  /\ result = <<>>
  /\ workflowData = Null
  /\ isAnalyzing = FALSE
  /\ readers = <<>>
  /\ timers = <<>>
  /\ NoReport

Next ==
  \/ \E text \in TypedTexts : Mounted /\ setJsonInput(text) /\ UNCHANGED generator
  \/ Mounted /\ ClickAnalyze /\ UNCHANGED generator
  \/ \E files \in FileLists : Mounted /\ handleFileUpload(files) /\ UNCHANGED generator
  \/ \E files \in FileLists : Mounted /\ handleDrop(files) /\ UNCHANGED generator
  \/ \E i \in 1..MaxPending : readerOnload(i) /\ UNCHANGED generator
  \/ \E i \in 1..MaxPending : readerOnerror(i) /\ UNCHANGED generator
  \/ timerFires /\ UNCHANGED generator

Spec == Init /\ [][Next]_vars

InitAnalyze ==
  /\ jsonInput \in Texts
  /\ result = <<>>
  /\ workflowData = Null
  /\ isAnalyzing = FALSE
  /\ readers = <<>>
  /\ timers = <<>>
  /\ NoReport

NextAnalyze == analyzeJson /\ UNCHANGED generator

SpecAnalyze == InitAnalyze /\ [][NextAnalyze]_vars

(***************************************************************************)
(* The detector catalog on single nodes.  SpecDetect applies analyzeJson   *)
(* to the documents that hold one node of DetectNodes each.                *)
(***************************************************************************)
\* a node with id, name and typeVersion, and the given remaining attributes
Node(type, parameters, credentials, webhookId) ==
  ObjOf(<<KV("id", Str("n1")), KV("name", Str("Node")), KV("type", type),
          KV("typeVersion", Num(1)), KV("parameters", parameters),
          KV("credentials", credentials), KV("webhookId", webhookId)>>)

\* node types: annotation, LLM, agent, code, HTTP, trigger, social, database,
\* file, each in the spelling the detectors look for and in others
DetectTypes ==
  {"n8n-nodes-base.stickyNote", "n8n-nodes-base.set",
   "@n8n/n8n-nodes-langchain.lmChatOpenAi", "n8n-nodes-base.openai", "n8n-nodes-base.openAi",
   "custom.anthropic", "custom.gemini",
   "@n8n/n8n-nodes-langchain.agent", "@n8n/n8n-nodes-langchain.toolCalculator",
   "@n8n/n8n-nodes-langchain.memoryBufferWindow", "custom.planning",
   "n8n-nodes-base.code", "n8n-nodes-base.function", "n8n-nodes-base.functionItem",
   "n8n-nodes-base.codeRunner", "database.code", "N8N-nodes-base.code",
   "n8n-nodes-base.httpRequest", "n8n-nodes-base.httpRequestTool",
   "n8n-nodes-base.webhook", "n8n-nodes-base.formTrigger", "custom.trigger",
   "n8n-nodes-base.scheduleTrigger",
   "n8n-nodes-base.linkedIn", "n8n-nodes-base.LinkedIn", "n8n-nodes-base.twitter",
   "n8n-nodes-base.postgres", "n8n-nodes-base.Postgres", "n8n-nodes-base.mySql",
   "n8n-nodes-base.readBinaryFile", "custom.fs"}

\* credentials: none, one stored credential, an entry that is null
CredentialPalette ==
  {Undefined,
   Obj(<<KV("httpBasicAuth", Obj(<<KV("id", Str("c1")), KV("name", Str("basic"))>>))>>),
   Obj(<<KV("api", Null)>>)}

\* nodes that vary type, credentials and webhookId
TypeNodes ==
  {Node(Str(type), Undefined, credentials, webhookId) :
     type \in DetectTypes, credentials \in CredentialPalette,
     webhookId \in {Undefined, Str(""), Str("wh-1")}}

PromptPalette ==
  {Undefined, Str(""), Str("Hello"), Str("Summarize {{ $json.text }}"), Num(5),
   Arr(<<Str("{{ $json.text }}")>>)}

\* nodes that vary the prompt and message parameters
PromptNodes ==
  {Node(Str(type), ObjOf(<<KV("prompt", prompt), KV("message", message)>>),
        Undefined, Undefined) :
     type \in {"@n8n/n8n-nodes-langchain.lmChatOpenAi", "custom.anthropic",
               "n8n-nodes-base.set", "n8n-nodes-base.stickyNote"},
     prompt \in PromptPalette, message \in PromptPalette}

\* parameter trees: strings the patterns match and do not match, as values,
\* as keys, nested in mappings and sequences, beside values of other types
ParameterTrees ==
  {Obj(<<>>),
   Obj(<<KV("text", Str("hello"))>>),
   Obj(<<KV("text", Str("my password"))>>),
   Obj(<<KV("password", Str("hunter2"))>>),
   Obj(<<KV("apiKey", Num(5)), KV("token", Bool(TRUE)), KV("secret", Null)>>),
   Obj(<<KV("text", Str("API_KEY and Secret Token"))>>),
   Obj(<<KV("a", Str("password")), KV("b", Str("password"))>>),
   Obj(<<KV("options", Obj(<<KV("headers", Arr(<<Str("x"), Str("private-key"),
                                                   Obj(<<KV("v", Str("my ssn"))>>)>>))>>))>>),
   Obj(<<KV("card", Str("4111 1111 1111 1111"))>>),
   Obj(<<KV("card", Str("41111111111111112"))>>),
   Obj(<<KV("note", Str("credit card 4111-1111-1111-1111"))>>),
   Obj(<<KV("note", Str("social security")), KV("list", Arr(<<Str("ccn"), Str("SSN")>>))>>),
   Arr(<<Str("password")>>),
   Str("password")}

\* nodes that vary the parameters tree
SensitiveNodes ==
  {Node(Str(type), parameters, credentials, Undefined) :
     type \in {"n8n-nodes-base.set", "n8n-nodes-base.stickyNote"},
     parameters \in ParameterTrees,
     credentials \in {Undefined, Obj(<<KV("api", Null)>>)}}

Tool(name) == Obj(<<KV("name", Str(name))>>)

ToolsPalette ==
  {Undefined, Null, Arr(<<>>),
   Arr(<<Tool("a"), Tool("b"), Tool("c"), Tool("d"), Tool("e")>>),
   Arr(<<Tool("a"), Tool("b"), Tool("c"), Tool("d"), Tool("e"), Tool("f")>>),
   Str("calculator,search"), Str("calc"), Num(7),
   Obj(<<KV("length", Num(9))>>), Obj(<<KV("length", Str("12"))>>)}

\* nodes that vary the tools parameter
ToolsNodes ==
  {Node(Str(type), ObjOf(<<KV("tools", tools)>>), Undefined, Undefined) :
     type \in {"@n8n/n8n-nodes-langchain.agent", "n8n-nodes-base.set",
               "n8n-nodes-base.stickyNote"},
     tools \in ToolsPalette}

UrlPalette ==
  {Undefined, Str(""), Str("example.com"), Str("http://example.com"),
   Str("https://example.com"), Str("https://proxy.example.com/?to=http://inner"),
   Str("ftp://example.com"), Str("={{ $json.url }}"), Num(8080),
   Arr(<<Str("http://example.com")>>)}

\* nodes that vary the url parameter
HttpNodes ==
  {Node(Str(type), ObjOf(<<KV("url", url)>>), credentials, Undefined) :
     type \in {"n8n-nodes-base.httpRequest", "n8n-nodes-base.httpRequestTool",
               "n8n-nodes-base.set"},
     url \in UrlPalette,
     credentials \in {Undefined, Obj(<<KV("api", Null)>>)}}

\* node entries with a malformed field
MalformedNodes ==
  {Null, Node(Undefined, Undefined, Undefined, Undefined),
   Node(Num(7), Undefined, Undefined, Undefined),
   Node(Null, Undefined, Undefined, Undefined),
   Node(Str("n8n-nodes-base.code"), Str("text"), Str("text"), Undefined),
   Node(Str("n8n-nodes-base.code"), Undefined, Arr(<<Null>>), Undefined)}

DetectNodes ==
  TypeNodes \cup PromptNodes \cup SensitiveNodes \cup ToolsNodes \cup HttpNodes
    \cup MalformedNodes

\* the document holding the one node
NodeDoc(node) == Doc(Str("wf"), Arr(<<node>>), Obj(<<>>), Undefined)

InitDetect ==
  /\ jsonInput \in {TextOf(NodeDoc(node)) : node \in DetectNodes}
  /\ result = <<>>
  /\ workflowData = Null
  /\ isAnalyzing = FALSE
  /\ readers = <<>>
  /\ timers = <<>>
  /\ NoReport

NextDetect == analyzeJson /\ UNCHANGED generator

SpecDetect == InitDetect /\ [][NextDetect]_vars

(***************************************************************************)
(* Rendering the outcome of an analysis.  SpecRender applies analyzeJson   *)
(* to documents whose nodes differ in id, name and severity of findings,   *)
(* and whose connection maps differ in sources and targets.                *)
(***************************************************************************)
\* a node with the given id, name, type and credentials
Named(id, name, type, credentials) ==
  ObjOf(<<KV("id", id), KV("name", name), KV("type", Str(type)),
          KV("typeVersion", Num(1)), KV("credentials", credentials)>>)

StoredCredential ==
  Obj(<<KV("httpBasicAuth", Obj(<<KV("id", Str("c1")), KV("name", Str("basic"))>>))>>)

RenderNodes ==
  {CodeNode, HttpNode, StickyNode, ChatNodeNoId,
   \* a low finding only
   Named(Str("n3"), Str("Store"), "n8n-nodes-base.set", StoredCredential),
   \* a medium finding only
   Named(Str("n7"), Str("Hook"), "n8n-nodes-base.webhook", Undefined),
   \* no finding, with and without id
   Named(Str("n10"), Str("Edit"), "n8n-nodes-base.set", Undefined),
   Named(Undefined, Str("Set"), "n8n-nodes-base.set", Undefined),
   \* no finding, the id of CodeNode
   Named(Str("n1"), Str("Twin"), "n8n-nodes-base.set", Undefined),
   \* a finding, under a name every object inherits
   Named(Str("n11"), Str("constructor"), "n8n-nodes-base.code", Undefined)}

RenderNodeLists == UNION {[1..n -> RenderNodes] : n \in 0..MaxNodes}

\* one source with one edge to the target
OneEdge(source, target) ==
  Obj(<<KV(source, Obj(<<KV("main", Arr(<<Arr(<<target>>)>>))>>))>>)

RenderConnections ==
  {Undefined, SimpleConnections, RaggedConnections,
   \* a source that names no node, with an edge and without
   OneEdge("Ghost", Edge("Code")),
   Obj(<<KV("Ghost", Obj(<<KV("main", Arr(<<Arr(<<>>)>>))>>))>>),
   \* a source that names a node without id
   OneEdge("Set", Edge("Code")),
   \* an entry without target
   OneEdge("Code", Obj(<<KV("type", Str("main"))>>)),
   \* a source that names no node but a member every object inherits
   OneEdge("toString", Edge("Code"))}

RenderDocs ==
  {Doc(Undefined, Arr(nodes), connections, Undefined) :
     nodes \in RenderNodeLists, connections \in RenderConnections}
    \cup OtherValues

InitRender ==
  /\ jsonInput \in {TextOf(doc) : doc \in RenderDocs}
  /\ result = <<>>
  /\ workflowData = Null
  /\ isAnalyzing = FALSE
  /\ readers = <<>>
  /\ timers = <<>>
  /\ NoReport

NextRender == Mounted /\ analyzeJson /\ UNCHANGED generator

SpecRender == InitRender /\ [][NextRender]_vars

(***************************************************************************)
(* File loads.  SpecLoad is the page after a text was typed, taking the    *)
(* steps of the Analyze button, the file input, the drop zone and their    *)
(* callbacks.                                                              *)
(***************************************************************************)
\* the files loaded: the accepted and refused files of Files, and a JSON file
\* holding the empty object
LoadFiles ==
  {f \in Files : f.name # "WF.JSON"} \cup {File("empty.json", "", TextOf(Obj(<<>>)))}

\* one file, or a refused file beside another
LoadFileLists ==
  {<<f>> : f \in LoadFiles} \cup {<<f, g>> : f \in OtherFiles, g \in LoadFiles}

InitLoad ==
  /\ jsonInput \in TypedTexts \cup {<<>>}
  /\ result = <<>>
  /\ workflowData = Null
  /\ isAnalyzing = FALSE
  /\ readers = <<>>
  /\ timers = <<>>
  /\ NoReport

NextLoad ==
  \/ Mounted /\ ClickAnalyze /\ UNCHANGED generator
  \/ \E files \in LoadFileLists : Mounted /\ handleFileUpload(files) /\ UNCHANGED generator
  \/ \E files \in LoadFileLists : Mounted /\ handleDrop(files) /\ UNCHANGED generator
  \/ \E i \in 1..MaxPending : readerOnload(i) /\ UNCHANGED generator
  \/ \E i \in 1..MaxPending : readerOnerror(i) /\ UNCHANGED generator
  \/ timerFires /\ UNCHANGED generator

SpecLoad == InitLoad /\ [][NextLoad]_vars

(***************************************************************************)
(* Generating reports.  SpecReport is the page with its ReportGenerator:   *)
(* texts are typed and analysed while reports are generated.               *)
(***************************************************************************)
ReportTexts ==
  {TextOf(Doc(Undefined, Arr(<<CodeNode>>), Obj(<<>>), Undefined)),
   TextOf(Doc(Undefined, Arr(<<Named(Str("n7"), Str("Hook"), "n8n-nodes-base.webhook",
                                     Undefined)>>), Obj(<<>>), Undefined)),
   TextOf(Doc(Str("My workflow"), Arr(<<CodeNode, HttpNode>>), SimpleConnections,
              Undefined)),
   TextOf(Doc(Undefined, Arr(<<NoTypeNode>>), Obj(<<>>), Undefined)),
   TextOf(Num(5)),
   <<P("{")>>}

NextReport ==
  \/ \E text \in ReportTexts : Mounted /\ setJsonInput(text) /\ UNCHANGED generator
  \/ Mounted /\ ClickAnalyze /\ Rerendered
  \/ generateReport
  \/ html2canvasResolves
  \/ html2canvasRejects

SpecReport == Init /\ [][NextReport]_vars

(***************************************************************************)
(* Properties.  Under SpecAnalyze jsonInput never changes, so in a state   *)
(* with result # <<>> the report is the one analyzeJson built from         *)
(* jsonInput.                                                              *)
(***************************************************************************)
\* analyzeJson has run
Analyzed == result # <<>>

\* the text was parsed: analyzeJson has run on a text that is valid JSON
ParsedInput == Analyzed /\ ~TrimIsEmpty(jsonInput) /\ ~JSONparse(jsonInput).threw

\* the parsed document
Document == JSONparse(jsonInput).val

\* v is a mapping with the attribute key
HasKey(v, key) == v.t = "object" /\ \E i \in 1..Len(v.kids) : v.kids[i].k = key

\* the value of an attribute a mapping has
AttrOf(v, key) == v.kids[CHOOSE i \in 1..Len(v.kids) : v.kids[i].k = key].v

HasPrefix(x, prefix) == Len(x) >= Len(prefix) /\ SubSeq(x, 1, Len(prefix)) = prefix

NotWorkflowError == "This doesn't appear to be an n8n workflow file"

\* the report of a failure: one error and nothing else
IsErrorOnly(report) ==
  /\ Len(report.errors) = 1
  /\ ~report.isValid
  /\ ~report.isN8nWorkflow
  /\ report.warnings = <<>>
  /\ report.info = <<>>
  /\ report.securityIssues = <<>>
  /\ report.workflowInfo = <<>>

\* C1: a text that is empty, only white space, or no valid JSON yields a report
\* with exactly one error (the request for input, or the parse failure),
\* isValid and isN8nWorkflow false, no warnings, no findings and no summary.
C1_InvalidTextGivesOneError ==
  (Analyzed /\ jsonInput \in BlankTexts \cup BrokenTexts) =>
    /\ IsErrorOnly(result[1])
    /\ jsonInput \in BlankTexts => result[1].errors = <<"Please provide JSON input">>
    /\ jsonInput \in BrokenTexts =>
         /\ HasPrefix(result[1].errors[1], "Invalid JSON format: ")
         /\ workflowData = Null

C1_Witness ==
  /\ Analyzed
  /\ jsonInput = <<P("{"), S("name"), P(":"), S("wf"), P(","), P("}")>>
  /\ IsErrorOnly(result[1])
  /\ HasPrefix(result[1].errors[1], "Invalid JSON format: ")

\* the document has none of nodes, connections, meta.instanceId and name
LacksAll(data) ==
  /\ ~HasKey(data, "nodes")
  /\ ~HasKey(data, "connections")
  /\ ~HasKey(data, "name")
  /\ ~(HasKey(data, "meta") /\ HasKey(AttrOf(data, "meta"), "instanceId"))

\* C2: a parsed document without nodes, connections, meta.instanceId and name
\* yields the not-a-workflow report: that one error, isValid and isN8nWorkflow
\* false, no warnings, no findings, no summary; nothing else was run.
C2_NoAttributeGivesNotWorkflow ==
  (ParsedInput /\ LacksAll(Document)) =>
    /\ IsErrorOnly(result[1])
    /\ result[1].errors = <<NotWorkflowError>>
    /\ workflowData = Document

C2_Witness ==
  /\ Analyzed
  /\ jsonInput = TextOf(Obj(<<KV("id", Str("n1"))>>))
  /\ result[1].errors = <<NotWorkflowError>>

\* the analysis went past the classification: it did not stop with the
\* not-a-workflow error
ClassifiedWorkflow == ParsedInput /\ result[1].errors # <<NotWorkflowError>>

\* the document has at least one of the four attributes, whatever its value
ExposesAttribute(data) == ~LacksAll(data)

\* the document has at least one of the four attributes with a value other
\* than null, false, 0 and ""
ExposesTruthyAttribute(data) ==
  \/ \E key \in {"nodes", "connections", "name"} :
        HasKey(data, key) /\ Truthy(AttrOf(data, key))
  \/ /\ HasKey(data, "meta")
     /\ HasKey(AttrOf(data, "meta"), "instanceId")
     /\ Truthy(AttrOf(AttrOf(data, "meta"), "instanceId"))

\* C3 as stated: a parsed value is classified workflow-like iff it is an object
\* that has at least one of nodes, connections, meta.instanceId, name, whatever
\* the attribute's value.
C3_PresenceClassifies == ParsedInput => (ClassifiedWorkflow <=> ExposesAttribute(Document))

\* C3 amended: a parsed value is classified workflow-like iff it is an object
\* that has at least one of nodes, connections, meta.instanceId, name with a
\* truthy value (not null, false, 0 or "").
C3_TruthyAttributeClassifies ==
  ParsedInput => (ClassifiedWorkflow <=> ExposesTruthyAttribute(Document))

C3_Witness ==
  /\ Analyzed
  /\ jsonInput = TextOf(Doc(Str(""), Undefined, Undefined, Undefined))
  /\ result[1].errors = <<NotWorkflowError>>

\* C4: in every report (empty input, parse failure, non-workflow document,
\* file failures, full validation) isValid is true iff the errors list is empty,
\* whatever the warnings, info messages and findings.
C4_ValidIffNoErrors ==
  Analyzed => (result[1].isValid <=> result[1].errors = <<>>)

C4_Witness ==
  /\ Analyzed
  /\ result[1].isValid
  /\ result[1].errors = <<>>
  /\ result[1].warnings # <<>>
  /\ result[1].securityIssues # <<>>

NodesError == "Missing or invalid 'nodes' array"

ConnectionsError == "Missing or invalid 'connections' object"

\* the document's nodes attribute is a sequence
NodesIsSequence(data) == HasKey(data, "nodes") /\ AttrOf(data, "nodes").t = "array"

\* the elements of a sequence-valued nodes attribute
NodesOf(data) == AttrOf(data, "nodes").kids

\* the document's connections attribute is absent or no mapping
ConnectionsNotMapping(data) ==
  ~HasKey(data, "connections") \/ AttrOf(data, "connections").t # "object"

Elements(seq) == {seq[i] : i \in 1..Len(seq)}

\* C5: for a workflow-like document whose nodes attribute is absent or no
\* sequence the report is a structural one: isN8nWorkflow true, isValid false,
\* the nodes error present, the connections error present when connections is
\* absent, no other error, no warnings and no findings.
C5_MissingNodesReported ==
  (ParsedInput /\ ExposesTruthyAttribute(Document) /\ ~NodesIsSequence(Document)) =>
    /\ result[1].isN8nWorkflow
    /\ ~result[1].isValid
    /\ NodesError \in Elements(result[1].errors)
    /\ ~HasKey(Document, "connections") => ConnectionsError \in Elements(result[1].errors)
    /\ Elements(result[1].errors) \subseteq {NodesError, ConnectionsError}
    /\ result[1].warnings = <<>>
    /\ result[1].securityIssues = <<>>

\* the node has no attribute key, or a value the check takes for none
Without(node, key) == ~HasKey(node, key) \/ ~Truthy(AttrOf(node, key))

Count(seq, x) == Cardinality({i \in 1..Len(seq) : seq[i] = x})

IdMessage(index) == "Node at index " \o ToString(index) \o " is missing required 'id' field"

TypeMessage(node, index) ==
  "Node '" \o NodeLabel(node, index) \o "' is missing required 'type' field"

VersionMessage(node, index) ==
  "Node '" \o NodeLabel(node, index) \o "' is missing 'typeVersion' field"

\* C6: for a document whose nodes are a sequence of objects, every node is
\* checked: one missing-id error per node without id, one missing-type error
\* per node without type, one warning per node without typeVersion, whatever
\* the nodes before it lacked.
C6_EveryNodeChecked ==
  (ParsedInput /\ NodesIsSequence(Document)
     /\ \A i \in 1..Len(NodesOf(Document)) : NodesOf(Document)[i].t = "object") =>
    LET nodes == NodesOf(Document)
        Same(i, Message(_, _)) ==
          {j \in 1..Len(nodes) : Message(nodes[j], j - 1) = Message(nodes[i], i - 1)}
    IN  \A i \in 1..Len(nodes) :
          /\ Without(nodes[i], "id") => Count(result[1].errors, IdMessage(i - 1)) = 1
          /\ Without(nodes[i], "type") =>
               Count(result[1].errors, TypeMessage(nodes[i], i - 1))
                 = Cardinality({j \in Same(i, TypeMessage) : Without(nodes[j], "type")})
          /\ Without(nodes[i], "typeVersion") =>
               Count(result[1].warnings, VersionMessage(nodes[i], i - 1))
                 = Cardinality({j \in Same(i, VersionMessage) :
                                  Without(nodes[j], "typeVersion")})

\* the mapping with the attribute key set to val
SetAttr(v, key, val) ==
  IF HasKey(v, key)
  THEN Obj([i \in 1..Len(v.kids) |-> IF v.kids[i].k = key THEN KV(key, val) ELSE v.kids[i]])
  ELSE Obj(Append(v.kids, KV(key, val)))

\* some node of the document is an object without id
SomeNodeWithoutId(data) ==
  \E i \in 1..Len(NodesOf(data)) :
    NodesOf(data)[i].t = "object" /\ Without(NodesOf(data)[i], "id")

\* the document with its structural defects repaired: an empty connections
\* mapping where there was none, an id for every node that had none
Repaired(data) ==
  LET nodes == NodesOf(data)
      fixed == [i \in 1..Len(nodes) |->
                  IF nodes[i].t = "object" /\ Without(nodes[i], "id")
                  THEN SetAttr(nodes[i], "id", Str("id" \o ToString(i)))
                  ELSE nodes[i]]
      withNodes == SetAttr(data, "nodes", Arr(fixed))
  IN  IF ConnectionsNotMapping(data) THEN SetAttr(withNodes, "connections", Obj(<<>>))
      ELSE withNodes

\* a finding without the reference to its node
Rule(issue) == [severity |-> issue.severity, type |-> issue.type, message |-> issue.message]

Rules(issues) == [i \in 1..Len(issues) |-> Rule(issues[i])]

\* the document's only structural defects are those Repaired repairs
OnlyListedDefects(data) ==
  /\ NodesIsSequence(data)
  /\ ConnectionsNotMapping(data) \/ SomeNodeWithoutId(data)
  /\ ~validateN8nWorkflow(Repaired(data)).threw
  /\ validateN8nWorkflow(Repaired(data)).report[1].isValid

\* C7: for a document with a nodes sequence whose structural defects are a
\* missing or non-mapping connections attribute or nodes without id, the
\* report has isValid false and its findings are those the same nodes yield in
\* the repaired, structurally valid document.
C7_DefectsKeepFindings ==
  (ParsedInput /\ NodesIsSequence(Document) /\ OnlyListedDefects(Document)) =>
    /\ ~result[1].isValid
    /\ Rules(result[1].securityIssues)
         = Rules(validateN8nWorkflow(Repaired(Document)).report[1].securityIssues)

\* The part of C7 about the findings alone: the findings are those of the
\* repaired document, whether or not the defect was reported as an error.
FindingsNotSuppressed ==
  (ParsedInput /\ NodesIsSequence(Document) /\ OnlyListedDefects(Document)) =>
    /\ result[1].isN8nWorkflow
    /\ Rules(result[1].securityIssues)
         = Rules(validateN8nWorkflow(Repaired(Document)).report[1].securityIssues)

FindingsNotSuppressedWitness ==
  /\ ParsedInput
  /\ NodesIsSequence(Document)
  /\ OnlyListedDefects(Document)
  /\ ~result[1].isValid
  /\ result[1].securityIssues # <<>>

\* C8: analyzeJson never lets an exception out: after it a report is set and
\* isAnalyzing is false, whatever path it took.
C8_AlwaysReports == [][analyzeJson => (result' # <<>> /\ ~isAnalyzing')]_vars

C8_Witness ==
  /\ Analyzed
  /\ ~isAnalyzing
  /\ ~TrimIsEmpty(jsonInput)
  /\ ~JSONparse(jsonInput).threw
  /\ validateN8nWorkflow(Document).threw
  /\ HasPrefix(result[1].errors[1], "Invalid JSON format: ")

\* the type of the node is a string without the annotation marker
NotAnnotation(node) ==
  HasKey(node, "type") /\ AttrOf(node, "type").t = "string"
    /\ \A i \in 1..(Len(AttrOf(node, "type").s) - 9) :
         SubSeq(AttrOf(node, "type").s, i, i + 9) # "stickyNote"

\* every node is an object with a string type
TypedNodes(data) ==
  \A i \in 1..Len(NodesOf(data)) :
    /\ HasKey(NodesOf(data)[i], "type")
    /\ AttrOf(NodesOf(data)[i], "type").t = "string"

SeqSum(f) ==
  LET partial[i \in 0..Len(f)] == IF i = 0 THEN 0 ELSE partial[i - 1] + f[i]
  IN  partial[Len(f)]

\* the values of a mapping, in order; nothing for any other value
MappingValues(v) == IF v.t = "object" THEN [i \in 1..Len(v.kids) |-> v.kids[i].v] ELSE <<>>

\* the elements of a sequence, in order; nothing for any other value
SequenceElements(v) == IF v.t = "array" THEN v.kids ELSE <<>>

\* the edges below one output slot list
SlotEdges(outputs) ==
  SeqSum([i \in 1..Len(SequenceElements(outputs)) |->
            Len(SequenceElements(SequenceElements(outputs)[i]))])

\* the edges below one source node
SourceEdges(categories) ==
  SeqSum([i \in 1..Len(MappingValues(categories)) |->
            SlotEdges(MappingValues(categories)[i])])

\* the edges below the connections map: mapping, mapping, sequence, sequence
MapEdges(connections) ==
  SeqSum([i \in 1..Len(MappingValues(connections)) |->
            SourceEdges(MappingValues(connections)[i])])

\* C10: the summary's connection count is the sum of the lengths of the
\* innermost edge lists reached through source node, category and output slot;
\* no connections map gives 0, and a branch that is no mapping at level one or
\* no sequence at level two or three gives 0.
C10_ConnectionCountSkipsMalformed ==
  (ParsedInput /\ result[1].workflowInfo # <<>>) =>
    result[1].workflowInfo[1].connections
      = IF HasKey(Document, "connections") THEN MapEdges(AttrOf(Document, "connections"))
        ELSE 0

(***************************************************************************)
(* Properties of the detector catalog.  Under SpecDetect the document      *)
(* holds one node.                                                         *)
(***************************************************************************)
\* the analysed document holds exactly one node
SingleNode == ParsedInput /\ NodesIsSequence(Document) /\ Len(NodesOf(Document)) = 1

TheNode == NodesOf(Document)[1]

\* the node is a mapping whose type is a string
StringTyped(node) == HasKey(node, "type") /\ AttrOf(node, "type").t = "string"

TypeOf(node) == AttrOf(node, "type").s

\* x contains needle, letter case respected
Contains(x, needle) ==
  \E i \in 1..(Len(x) - Len(needle) + 1) : SubSeq(x, i, i + Len(needle) - 1) = needle

\* the node is no annotation: its type is a string without the marker
NonAnnotation(node) == StringTyped(node) /\ ~Contains(TypeOf(node), "stickyNote")

\* the parameter of a node; Undefined when the node has no parameters mapping
\* or the mapping has no such key
ParamOf(node, key) ==
  IF HasKey(node, "parameters") /\ HasKey(AttrOf(node, "parameters"), key)
  THEN AttrOf(AttrOf(node, "parameters"), key)
  ELSE Undefined

\* the findings of the report
Findings == result[1].securityIssues

\* the number of findings of a type, and of a type and severity
Found(type) == Cardinality({i \in 1..Len(Findings) : Findings[i].type = type})

FoundWith(type, severity) ==
  Cardinality({i \in 1..Len(Findings) :
                 Findings[i].type = type /\ Findings[i].severity = severity})

\* findings other than those of a type
Except(issues, type) ==
  LET Other(issue) == issue.type # type
  IN  SelectSeq(issues, Other)

\* what the detectors other than the credential detector give for a node,
\* in catalog order
OtherDetectors(node) ==
  LET nodeName == NodeName(node)
  IN  PromptInjection(node, nodeName)
        \o InsecureOutputHandling(node, nodeName)
        \o TrainingDataPoisoning(node, nodeName)
        \o ModelDenialOfService(node, nodeName)
        \o SensitiveInformationDisclosure(node, nodeName)
        \o InsecurePluginDesign(node, nodeName)
        \o ExcessiveAgency(node, nodeName)
        \o Overreliance(node, nodeName)
        \o ModelTheft(node, nodeName)
        \o InsecurePlanning(node, nodeName)
        \o MemoryPoisoning(node, nodeName)
        \o CodeExecutionRisk(node, nodeName)
        \o ExternalHttpRequest(node, nodeName)
        \o WebhookExposure(node, nodeName)
        \o SocialMediaIntegrationRisk(node, nodeName)
        \o DatabaseSecurityRisk(node, nodeName)
        \o FileSystemAccessRisk(node, nodeName)

\* C11: a node whose type contains "stickyNote" yields no finding, whatever
\* its parameters, credentials and webhookId; every other node is evaluated
\* against every detector, so the report carries what each detector gives.
C11_AnnotationSkippedOthersEvaluated ==
  (SingleNode /\ StringTyped(TheNode)) =>
    IF Contains(TypeOf(TheNode), "stickyNote")
    THEN result[1].isN8nWorkflow /\ Findings = <<>>
    ELSE Except(Findings, "Credential Reference") = OtherDetectors(TheNode)

\* the values held by a mapping or a sequence
EntryValues(v) ==
  IF v.t = "object" THEN [i \in 1..Len(v.kids) |-> v.kids[i].v]
  ELSE IF v.t = "array" THEN v.kids
  ELSE <<>>

\* the node entry has a malformed field a detector consults: the entry is
\* null, its type is no string, or a credentials entry is null
Malformed(node) ==
  \/ node.t # "object"
  \/ ~StringTyped(node)
  \/ /\ HasKey(node, "credentials")
     /\ \E i \in 1..Len(EntryValues(AttrOf(node, "credentials"))) :
          EntryValues(AttrOf(node, "credentials"))[i] = Null

\* C12: rule evaluation never aborts the analysis: with a malformed node in
\* the nodes sequence the report is still a workflow report, and the well
\* formed nodes still have their findings in it.
C12_MalformedNodeKeepsReport ==
  (ParsedInput /\ NodesIsSequence(Document)
     /\ \E i \in 1..Len(NodesOf(Document)) : Malformed(NodesOf(Document)[i])) =>
    /\ result[1].isN8nWorkflow
    /\ \A i \in 1..Len(NodesOf(Document)) :
         ~Malformed(NodesOf(Document)[i]) =>
           \A j \in 1..Len(OtherDetectors(NodesOf(Document)[i])) :
             \E k \in 1..Len(Findings) : Findings[k] = OtherDetectors(NodesOf(Document)[i])[j]

\* the value is a string containing "{{"
Interpolated(v) == v.t = "string" /\ Contains(v.s, "{{")

\* the type names an LLM or chat integration
NamesLlm(type) ==
  \/ Contains(type, "lmChat") \/ Contains(type, "openai")
  \/ Contains(type, "gemini") \/ Contains(type, "anthropic")

\* C13: in a completed report a non-annotation node has exactly one high
\* Prompt Injection finding if its type names an LLM or chat integration and
\* its prompt or its message is a string containing "{{", and none otherwise.
C13_PromptOrMessageInterpolated ==
  (SingleNode /\ result[1].isN8nWorkflow /\ NonAnnotation(TheNode)) =>
    IF /\ NamesLlm(TypeOf(TheNode))
       /\ (Interpolated(ParamOf(TheNode, "prompt")) \/ Interpolated(ParamOf(TheNode, "message")))
    THEN /\ Found("LLM-01: Prompt Injection") = 1
         /\ FoundWith("LLM-01: Prompt Injection", "high") = 1
    ELSE Found("LLM-01: Prompt Injection") = 0

\* the string values at any depth of a tree of mappings and sequences
RECURSIVE StringValues(_)
StringValues(v) ==
  IF v.t = "string" THEN <<v.s>>
  ELSE IF v.t \in {"object", "array"}
  THEN LET vals == EntryValues(v)
           from[i \in 0..Len(vals)] ==
             IF i = 0 THEN <<>> ELSE from[i - 1] \o StringValues(vals[i])
       IN  from[Len(vals)]
  ELSE <<>>

SensitiveType == "LLM-06: Sensitive Information Disclosure"

\* C14: for a non-annotation node with a parameters mapping the number of
\* Sensitive Information Disclosure findings is the number of pairs of a
\* string value at any depth of the parameters and a pattern of the eight it
\* matches; all of them are high.
C14_OneFindingPerStringAndPattern ==
  (SingleNode /\ NonAnnotation(TheNode) /\ HasKey(TheNode, "parameters")
     /\ AttrOf(TheNode, "parameters").t = "object") =>
    LET strings == StringValues(AttrOf(TheNode, "parameters"))
    IN  /\ Found(SensitiveType)
             = Cardinality({pair \in (1..Len(strings)) \X (1..8) :
                              PatternTest(pair[2], strings[pair[1]])})
        /\ FoundWith(SensitiveType, "high") = Found(SensitiveType)

\* the type names an agent
NamesAgent(type) == Contains(type, "agent")

AgencyType == "LLM-08: Excessive Agency"

\* C15: in a completed report a non-annotation node has exactly one high
\* Excessive Agency finding iff its type names an agent or its tools parameter
\* is an array, and the tools array holds more than 5 tools; tools that are no
\* array give none.
C15_MoreThanFiveTools ==
  (SingleNode /\ result[1].isN8nWorkflow /\ NonAnnotation(TheNode)) =>
    IF /\ ParamOf(TheNode, "tools").t = "array"
       /\ Len(ParamOf(TheNode, "tools").kids) > 5
    THEN Found(AgencyType) = 1 /\ FoundWith(AgencyType, "high") = 1
    ELSE Found(AgencyType) = 0

CodeExecutionType == "Code Execution Risk"

\* C16: a node whose type is one of n8n-nodes-base.code, .function and
\* .functionItem has exactly one high Code Execution Risk finding; a node
\* whose type only contains one of them, or "code" or "function", has none.
C16_CodeTypeByEquality ==
  (SingleNode /\ StringTyped(TheNode)) =>
    IF TypeOf(TheNode) \in {"n8n-nodes-base.code", "n8n-nodes-base.function",
                            "n8n-nodes-base.functionItem"}
    THEN Found(CodeExecutionType) = 1 /\ FoundWith(CodeExecutionType, "high") = 1
    ELSE Found(CodeExecutionType) = 0

HttpType == "External HTTP Request"

\* the url names a scheme: the plaintext one or the encrypted one
HasScheme(url) == Contains(url, "http://") \/ Contains(url, "https://")

\* C17: a node whose type is n8n-nodes-base.httpRequest and whose url is a
\* string with a scheme has exactly one External HTTP Request finding, high
\* when the url holds http:// and medium when it holds https:// only; any
\* other url or type gives none.
C17_HttpSeverityByScheme ==
  (SingleNode /\ StringTyped(TheNode)) =>
    IF /\ TypeOf(TheNode) = "n8n-nodes-base.httpRequest"
       /\ ParamOf(TheNode, "url").t = "string"
       /\ HasScheme(ParamOf(TheNode, "url").s)
    THEN /\ Found(HttpType) = 1
         /\ FoundWith(HttpType,
                      IF Contains(ParamOf(TheNode, "url").s, "http://")
                      THEN "high" ELSE "medium") = 1
    ELSE Found(HttpType) = 0

WebhookType == "Webhook Exposure"

\* the node has a webhookId other than null, false, 0 and ""
WebhookIdSet(node) == HasKey(node, "webhookId") /\ Truthy(AttrOf(node, "webhookId"))

\* C18: a non-annotation node has exactly one medium Webhook Exposure finding
\* iff its type names a trigger, webhook or form integration and its
\* webhookId is set or its type names webhook.
C18_WebhookExposure ==
  (SingleNode /\ NonAnnotation(TheNode)) =>
    IF /\ \/ Contains(TypeOf(TheNode), "trigger") \/ Contains(TypeOf(TheNode), "webhook")
          \/ Contains(TypeOf(TheNode), "form")
       /\ (WebhookIdSet(TheNode) \/ Contains(TypeOf(TheNode), "webhook"))
    THEN Found(WebhookType) = 1 /\ FoundWith(WebhookType, "medium") = 1
    ELSE Found(WebhookType) = 0

\* the node with the letters of its type in lower case
LowerTyped(node) == SetAttr(node, "type", Str(LowerCase(TypeOf(node))))

\* the findings of the detectors that search the type for a substring: all
\* but those of the two that compare the type with canonical identifiers
SubstringFindings(issues) == Rules(Except(Except(issues, CodeExecutionType), HttpType))

\* the findings of the document holding the one node, none if there is no report
FindingsOf(node) ==
  IF validateN8nWorkflow(NodeDoc(node)).threw THEN <<>>
  ELSE validateN8nWorkflow(NodeDoc(node)).report[1].securityIssues

\* C19: in a completed report the findings of the substring detectors do not
\* depend on the letter case of the node type: the node with its type in
\* lower case has the same.
C19_TypeCaseIgnored ==
  (SingleNode /\ result[1].isN8nWorkflow /\ StringTyped(TheNode)) =>
    SubstringFindings(Findings) = SubstringFindings(FindingsOf(LowerTyped(TheNode)))

\* the findings of each node analysed alone, one after the other
RECURSIVE OwnFindings(_)
OwnFindings(nodes) ==
  IF nodes = <<>> THEN <<>>
  ELSE FindingsOf(Head(nodes)) \o OwnFindings(Tail(nodes))

\* C20: the findings of a document are its nodes' own findings, in the order
\* of the nodes: what a node contributes is what it yields alone, in another
\* document with another name and connection map, whatever the other nodes.
C20_FindingsPerNode ==
  (ParsedInput /\ NodesIsSequence(Document)) =>
    Findings = OwnFindings(NodesOf(Document))


(***************************************************************************)
(* Rendering and reporting.                                                *)
(***************************************************************************)
\* the finding carries the id of the node, and its name when it has one
References(issue, node) ==
  /\ node.t = "object"
  /\ HasKey(node, "id")
  /\ issue.nodeId = AttrOf(node, "id")
  /\ HasKey(node, "name") => issue.nodeName = AttrOf(node, "name")

\* C21: in every report each finding references a node of the analysed
\* document: its nodeId is present and is the id of a node of the document's
\* node sequence, and its nodeName is that node's name.
C21_FindingsReferenceNodes ==
  Analyzed =>
    \A i \in 1..Len(Findings) :
      \E j \in 1..Len(NodesOf(Document)) : References(Findings[i], NodesOf(Document)[j])

ShowsWorkflow ==
  /\ Analyzed
  /\ Rendered(workflowData, result)
  /\ Mounted
  /\ result[1].isN8nWorkflow

\* the non-annotation nodes of the document that yield no finding
SecureNodes(nodes) ==
  {i \in 1..Len(nodes) : NonAnnotation(nodes[i]) /\ FindingsOf(nodes[i]) = <<>>}

\* C23: the secure-node count is the number of non-annotation nodes of the
\* document for which no finding was produced; a node that produced findings
\* is not counted, whether it has an id or not.
C23_SecureNodesHaveNoFindings ==
  ShowsWorkflow =>
    calculateSecureNodes(workflowData, result[1]).count
      = Cardinality(SecureNodes(NodesOf(workflowData)))

\* the total order high > medium > low > safe
SeverityRank(level) ==
  CASE level = "high" -> 3
    [] level = "medium" -> 2
    [] level = "low" -> 1
    [] OTHER -> 0

\* the greatest rank among the findings that carry the id
MaxRank(issues, id) ==
  LET ranks == {SeverityRank(issues[i].severity) :
                  i \in {j \in 1..Len(issues) : issues[j].nodeId = id}} \cup {0}
  IN  CHOOSE r \in ranks : \A q \in ranks : q <= r

\* the findings list in other orders: reversed, and rotated by every offset
Reordered(issues) ==
  {[i \in 1..Len(issues) |-> issues[Len(issues) + 1 - i]]}
    \cup {[i \in 1..Len(issues) |-> issues[((i - 1 + k) % Len(issues)) + 1]] :
            k \in 1..Len(issues)}

\* the nodes the visualization displays
Displayed == WorkflowVisualization(workflowData, Findings).processedNodes

Grouping == issuesByNode(Findings, <<>>)

\* the key of a finding: its nodeName, or the placeholder when it is absent
GroupKey(issue) ==
  IF issue.nodeName.t = "string" /\ issue.nodeName.s # "" THEN issue.nodeName.s
  ELSE IF IsNullish(issue.nodeName) THEN "Unknown Node"
  ELSE ToStr(issue.nodeName)

\* the findings of a key, in the order of the findings list
KeyedBy(key) ==
  LET Keyed(issue) == GroupKey(issue) = key
  IN  SelectSeq(Findings, Keyed)

\* C25: grouping the findings by node is a projection of the findings list:
\* it completes, every finding is in the one group of its nodeName (or of the
\* placeholder), no two groups have the same key, and a group holds exactly
\* the findings of its key in the order of the findings list.
C25_GroupingIsProjection ==
  Analyzed =>
    /\ ~Grouping.threw
    /\ \A i \in 1..Len(Findings) :
         \E g \in 1..Len(Grouping.groups) : Grouping.groups[g].key = GroupKey(Findings[i])
    /\ \A g, h \in 1..Len(Grouping.groups) :
         Grouping.groups[g].key = Grouping.groups[h].key => g = h
    /\ \A g \in 1..Len(Grouping.groups) :
         Grouping.groups[g].issues = KeyedBy(Grouping.groups[g].key)

\* what the visualization computes in this state
Visualization == WorkflowVisualization(workflowData, Findings)

\* C26: rendering never fails: in every state in which a report and parsed
\* data are both set, the node and edge computation of the visualization
\* completes, with no nodes and no edges when the document has no nodes list.
C26_VisualizationCompletes ==
  (Analyzed /\ Rendered(workflowData, result)) =>
    /\ ~Visualization.threw
    /\ ~NodesIsSequence(workflowData) =>
         (Visualization.processedNodes = <<>> /\ Visualization.processedEdges = <<>>)

\* C27: after any sequence of user actions and callbacks, whenever result and
\* workflowData are both set, result is the report validateN8nWorkflow returns
\* for exactly that workflowData: no error-only report is paired with the
\* parsed data of an earlier analysis.
C27_ReportMatchesData ==
  (Mounted /\ result # <<>> /\ workflowData # Null) =>
    validateN8nWorkflow(workflowData) = Returned(result[1])

\* C28: a generated report never outlives the analysis it was generated from:
\* whenever reportUrl is set, the report was built from the result and the
\* workflowData the page holds now, also when a new result arrived while
\* generateReport was waiting for the screenshot.
C28_ReportIsCurrent ==
  reportUrl # <<>> =>
    /\ result # <<>>
    /\ reportUrl[1] = [result |-> result[1], workflowData |-> workflowData]

\* no file is being read and no delayed analysis is pending
Quiescent == readers = <<>> /\ timers = <<>>

\* the reports of a refused file and of a failed read
RefusalReports ==
  {ErrorReport("Please upload a JSON file"), ErrorReport("Please drop a JSON file"),
   ErrorReport("Failed to read file")}

\* C29: when file loads overlap with each other or with clicks on Analyze, then
\* once every load callback and every delayed analysis has run, result and
\* workflowData are the analysis of the text jsonInput holds (unless the last
\* report is the refusal of a file or a failed read).
C29_LoadsSettleOnInput ==
  (Quiescent /\ Analyzed /\ result[1] \notin RefusalReports) =>
    /\ result = tryAnalyze(jsonInput).result
    /\ workflowData = tryAnalyze(jsonInput).workflowData

\* the concatenation of the sequences of seqs
RECURSIVE Flatten(_)
Flatten(seqs) == IF seqs = <<>> THEN <<>> ELSE Head(seqs) \o Flatten(Tail(seqs))

\* the elements of the sequences among vals, in order
ElementsOf(vals) ==
  LET arrays == SelectSeq(vals, IsArray)
  IN  Flatten([i \in 1..Len(arrays) |-> arrays[i].kids])

\* the innermost entries below one source of the connection map
EntriesOf(sourceConnections) ==
  IF Truthy(sourceConnections) /\ TypeofObject(sourceConnections)
  THEN ElementsOf(ElementsOf(ObjectValues(sourceConnections)))
  ELSE <<>>

\* key is the name of a node of the document that has an id
NamesNode(key, nodes) ==
  \E i \in 1..Len(nodes) :
    Get(nodes[i], "name") = Str(key) /\ Truthy(Get(nodes[i], "id"))

\* every source of the connection map that holds entries names a node with an
\* id, and every entry carries a target node name
WellFormedEdges(data) ==
  LET connections == Get(data, "connections")
      keys == ObjectKeys(connections)
      vals == ObjectValues(connections)
  IN  (Truthy(connections) /\ TypeofObject(connections)) =>
        \A s \in 1..Len(keys) :
          LET entries == EntriesOf(vals[s])
          IN  /\ entries # <<>> => NamesNode(keys[s], Get(data, "nodes").kids)
              /\ \A e \in 1..Len(entries) : Truthy(OptGet(entries[e], "node"))

\* C30: for a workflow document with a nodes sequence, the visualization
\* builds at most as many edges as the summary's connection count, and as many
\* exactly when every source of the connection map that holds entries is the
\* name of a node with an id and every entry carries a target node name.
C30_EdgesMatchConnectionCount ==
  (ShowsWorkflow /\ NodesIsSequence(workflowData) /\ result[1].workflowInfo # <<>>) =>
    /\ Len(Visualization.processedEdges) <= result[1].workflowInfo[1].connections
    /\ Len(Visualization.processedEdges) = result[1].workflowInfo[1].connections
         <=> WellFormedEdges(workflowData)

====
